---- MODULE Spec2Model ----
(***************************************************************************)
(* ResearchMate: multi-source paper aggregation / deduplication            *)
(* (components/unified_fetcher.py) and trend / gap analysis                *)
(* (components/trend_monitor.py).                                          *)
(*                                                                         *)
(* Python strings are modelled as sequences of one-character strings so    *)
(* that strip(), lower(), re.sub(), split()/join(), substring tests and    *)
(* string comparison are computed, not assumed.  A dictionary entry is a   *)
(* record [k, s]: k = "missing" (key absent), "none" (value None) or       *)
(* "str" (a string s).                                                     *)
(***************************************************************************)
EXTENDS Integers, Sequences, FiniteSets, TLC

VARIABLES
    dd_in,      \* _deduplicate_papers: the list of papers P handed in
    dd_calls,   \* which calls have returned: "once" (on P), "doubled" (on P ++ P), "again"
    dd_out,     \* result of _deduplicate_papers(P)
    dd_out2,    \* result of _deduplicate_papers(P ++ P)
    dd_again,   \* result of _deduplicate_papers on the result of _deduplicate_papers(P)
    sp_cls,     \* search_papers: class of the fetcher the call is made on
    sp_max,     \* max_results
    sp_sources, \* sources
    sp_sort,    \* sort_by
    sp_cat,     \* category (PaperFetcher only)
    sp_range,   \* date_range (PaperFetcher only)
    sp_now,     \* what datetime.now() returns at line 595 (PaperFetcher only)
    sp_pc,      \* position: "loop" (in the for loop over sources) or "done"
    sp_i,       \* index in sources of the next source of the loop
    sp_all,     \* all_papers
    sp_log,     \* what each iteration of the loop did, in order
    sp_outcome, \* "pending", "returned" or "raised"
    sp_result,  \* the returned list
    tt_papers,  \* analyze_temporal_trends: the papers argument
    tt_pc,      \* "call" before the call, "done" after it returned
    tt_result,  \* the returned dictionary
    gp_papers,  \* detect_research_gaps: the papers argument
    gp_groq,    \* self.groq_processor: "none", "answers" or "raises"
    gp_pc,      \* "call" before the call, "done" after it returned
    gp_result,  \* the returned dictionary
    rl_clock,   \* _rate_limit: time.time(), in hundredths of a second
    rl_ticks,   \* how many times the clock was advanced
    rl_last,    \* self.last_request_time, 0 for a source without entry
    rl_pc,      \* per thread: "idle", "read" (after line 417), "sleeping" (in time.sleep),
                \* "stamp" (before line 426) or "store" (in line 426, after its time.time())
    rl_src,     \* per thread: the source argument of the call in progress
    rl_now,     \* per thread: now, as read on entry
    rl_sleep,   \* per thread: sleep_time, 0 when the call does not sleep
    rl_wake,    \* per thread: the time at which time.sleep may return
    rl_stamp,   \* per thread: the value of time.time() in line 426
    rl_calls,   \* the calls that returned, in order of return
    s2_pc,      \* _search_semantic_scholar: "idle", "request", "waiting" (in time.sleep) or "done"
    s2_attempt, \* attempt, the loop variable
    s2_log,     \* the requests made so far: the response and the wait that followed
    s2_result,  \* the returned list
    cr_item,    \* Crossref item: whether it has 'published-print', and its date-parts[0]
    cr_via,     \* "search" (_search_crossref) or "lookup" (get_paper_by_doi)
    cr_pc,      \* "idle", "parse" before the item is parsed, "done" after
    cr_paper,   \* published_date and year of the paper built from the item
    rp_papers,  \* list handed to generate_trend_report
    rp_groq,    \* groq_processor: "none", "answers" or "raises"
    rp_pc,      \* "idle", "call" before generate_trend_report runs, "done" after
    rp_report,  \* dictionary generate_trend_report returned
    pm_max,    \* _search_pubmed: max_results
    pm_pc,     \* "idle", "start", "esearch", "fetch", "efetch" or "done"
    pm_log,    \* the rate-limit calls and requests made so far, in order
    pm_ids,    \* idlist of the esearch response
    pm_result, \* the returned list
    kw_content, \* _extract_keywords: the content argument
    kw_pc,     \* "idle", "call" before the call, "done" after it returned
    kw_keywords,\* the returned list
    mo_fields, \* AdvancedTrendMonitor: trend_data, keyword_trends, temporal_data, gap_analysis_cache
    mo_groq,   \* AdvancedTrendMonitor.groq_processor
    mo_papers, \* the list of papers both calls were handed
    mo_given,  \* mo_papers as it was when the calls were made
    mo_call,   \* per call: the method, its position, and its local variables
    au_clock,  \* AuthManager: the time (UTC), in ticks
    au_offset, \* what the local wall clock is ahead of UTC, in ticks
    au_jumps,  \* how often the time has advanced
    au_sessions, \* data/active_sessions.json: user_id -> token, created_at, last_activity
    au_issued, \* the tokens authenticate_user has returned
    au_latest, \* per user: the latest successful authenticate_user and whether logout_user followed
    au_verdict,\* the latest verify_token call and what held when it was made
    research_mate, \* main.py: 0 for None, r for the object made by run r
    citation_analyzer, \* main.py: 0 for None, r for the object made by run r
    research_mate_initialized, \* main.py
    initialization_in_progress, \* main.py
    init_runs, \* the tasks running initialize_research_mate, in order of creation
    init_lifespan, \* position of lifespan
    init_startup, \* position of startup_event
    init_requests \* number of /api/trigger-init requests served

dd_vars == <<dd_in, dd_calls, dd_out, dd_out2, dd_again>>

sp_vars == <<sp_cls, sp_max, sp_sources, sp_sort, sp_cat, sp_range, sp_now, sp_pc, sp_i, sp_all,
             sp_log, sp_outcome, sp_result>>

tt_vars == <<tt_papers, tt_pc, tt_result>>

gp_vars == <<gp_papers, gp_groq, gp_pc, gp_result>>

rl_vars == <<rl_clock, rl_ticks, rl_last, rl_pc, rl_src, rl_now, rl_sleep, rl_wake, rl_stamp, rl_calls>>

s2_vars == <<s2_pc, s2_attempt, s2_log, s2_result>>

cr_vars == <<cr_item, cr_via, cr_pc, cr_paper>>

rp_vars == <<rp_papers, rp_groq, rp_pc, rp_report>>

pm_vars == <<pm_max, pm_pc, pm_log, pm_ids, pm_result>>

kw_vars == <<kw_content, kw_pc, kw_keywords>>

mo_vars == <<mo_fields, mo_groq, mo_papers, mo_given, mo_call>>

au_vars == <<au_clock, au_offset, au_jumps, au_sessions, au_issued, au_latest, au_verdict>>

init_vars == <<research_mate, citation_analyzer, research_mate_initialized, initialization_in_progress, init_runs, init_lifespan, init_startup, init_requests>>

vars == <<dd_in, dd_calls, dd_out, dd_out2, dd_again, sp_cls, sp_max, sp_sources, sp_sort, sp_cat,
          sp_range, sp_now, sp_pc, sp_i, sp_all, sp_log, sp_outcome, sp_result,
          tt_papers, tt_pc, tt_result, gp_papers, gp_groq, gp_pc, gp_result,
          rl_clock, rl_ticks, rl_last, rl_pc, rl_src, rl_now, rl_sleep, rl_wake, rl_stamp, rl_calls,
          s2_pc, s2_attempt, s2_log, s2_result,
          cr_item, cr_via, cr_pc, cr_paper,
          rp_papers, rp_groq, rp_pc, rp_report,
          pm_max, pm_pc, pm_log, pm_ids, pm_result,
          kw_content, kw_pc, kw_keywords,
          mo_fields, mo_groq, mo_papers, mo_given, mo_call,
          au_clock, au_offset, au_jumps, au_sessions, au_issued, au_latest, au_verdict,
          research_mate, citation_analyzer, research_mate_initialized, initialization_in_progress, init_runs, init_lifespan, init_startup, init_requests>>

----------------------------------------------------------------------------
(* Bounds of the model *)

\* longest list of papers drawn from SmallPool for _deduplicate_papers
MaxLen == 3

\* longest sources list handed to search_papers
MaxSources == 2

\* most records one adapter call returns
MaxRecords == 2

\* largest max_results handed to search_papers
MaxResults == 3

\* longest list of papers handed to analyze_temporal_trends
MaxTrendPapers == 2

\* longest list of papers of GapPool in a corpus handed to detect_research_gaps
MaxGapPapers == 2

\* most copies of FillerPaper in a corpus handed to detect_research_gaps
MaxFiller == 21

\* number of consecutive publication years (from 2018) of a growth corpus
MaxGrowthYears == 5

\* threads that call _rate_limit on one fetcher
MaxThreads == 2

\* calls of _rate_limit in one behaviour
MaxCalls == 3

\* times the clock is advanced in one behaviour
MaxTicks == 2

\* longest date-parts array of a Crossref item
MaxDateParts == 3

\* longest list handed to generate_trend_report
MaxReportPapers == 2

\* most words that follow the numbered terms in a content handed to
\* _extract_keywords
MaxTailWords == 3

\* longest list of papers handed to two calls on one monitor
MaxMonitorPapers == 2

\* how often the time advances between calls of the AuthManager
MaxJumps == 2

\* number of /api/trigger-init requests
MaxRequests == 2

----------------------------------------------------------------------------
(* Characters and Python string primitives *)

LowerLetters == <<"a", "b", "c", "d", "e", "f", "g", "h", "i", "j", "k", "l", "m", "n", "o", "p", "q", "r", "s", "t", "u", "v", "w", "x", "y", "z">>

UpperLetters == <<"A", "B", "C", "D", "E", "F", "G", "H", "I", "J", "K", "L", "M", "N", "O", "P", "Q", "R", "S", "T", "U", "V", "W", "X", "Y", "Z">>

Digits == <<"0", "1", "2", "3", "4", "5", "6", "7", "8", "9">>

\* the characters of the model in code-point order (str comparison)
CodeOrder == <<" ", "!", "-", ".", "/", "0", "1", "2", "3", "4", "5", "6", "7", "8", "9", ":", "A", "B", "C", "D", "E", "F", "G", "H", "I", "J", "K", "L", "M", "N", "O", "P", "Q", "R", "S", "T", "U", "V", "W", "X", "Y", "Z", "_", "a", "b", "c", "d", "e", "f", "g", "h", "i", "j", "k", "l", "m", "n", "o", "p", "q", "r", "s", "t", "u", "v", "w", "x", "y", "z">>

Range(f) == {f[i] : i \in DOMAIN f}

\* the lists of at most n elements of S
RECURSIVE ListsUpTo(_, _)
ListsUpTo(S, n) ==
    IF n = 0 THEN {<<>>}
    ELSE LET shorter == ListsUpTo(S, n - 1)
         IN  shorter \cup {Append(l, x) : l \in {m \in shorter : Len(m) = n - 1}, x \in S}

IndexIn(c, tup) == CHOOSE i \in DOMAIN tup : tup[i] = c

IsUpper(c) == c \in Range(UpperLetters)

IsAlpha(c) == c \in Range(UpperLetters) \cup Range(LowerLetters)

IsDigit(c) == c \in Range(Digits)

\* \s of the regular expressions, and what str.strip() / str.split() remove
IsSpace(c) == c = " "

\* \w of the regular expressions: letters, digits and the underscore
IsWordChar(c) == IsAlpha(c) \/ IsDigit(c) \/ c = "_"

LowerChar(c) == IF IsUpper(c) THEN LowerLetters[IndexIn(c, UpperLetters)] ELSE c

\* str.lower()
Lower(s) == [i \in 1..Len(s) |-> LowerChar(s[i])]

RECURSIVE LStrip(_)
LStrip(s) == IF s # <<>> /\ IsSpace(Head(s)) THEN LStrip(Tail(s)) ELSE s

RECURSIVE RStrip(_)
RStrip(s) == IF s # <<>> /\ IsSpace(s[Len(s)]) THEN RStrip(SubSeq(s, 1, Len(s) - 1)) ELSE s

\* str.strip()
Strip(s) == RStrip(LStrip(s))

IsPunctKept(c) == IsWordChar(c) \/ IsSpace(c)

\* re.sub(r'[^\w\s]', '', s)
RemovePunct(s) == SelectSeq(s, IsPunctKept)

RECURSIVE CollapseFrom(_, _, _)
CollapseFrom(s, i, acc) ==
    IF i > Len(s) THEN acc
    ELSE IF IsSpace(s[i])
         THEN IF acc # <<>> /\ ~IsSpace(acc[Len(acc)])
              THEN CollapseFrom(s, i + 1, Append(acc, " "))
              ELSE CollapseFrom(s, i + 1, acc)
         ELSE CollapseFrom(s, i + 1, Append(acc, s[i]))

\* ' '.join(s.split()): runs of whitespace become one blank, none at the ends
CollapseWs(s) == RStrip(CollapseFrom(s, 1, <<>>))

----------------------------------------------------------------------------
(* Dictionary entries *)

Missing == [k |-> "missing", s |-> <<>>]

None == [k |-> "none", s |-> <<>>]

Str(s) == [k |-> "str", s |-> s]

\* the `x = paper.get(f); if x is None: x = ''; str(x)` idiom
GetOrEmpty(v) == IF v.k = "str" THEN v.s ELSE <<>>

\* date_range = None
NoRange == [k |-> "none", n |-> 0]

\* a datetime: the day, the second of the day and the microsecond of the second
Datetime(day, second, microsecond) == [day |-> day, second |-> second, microsecond |-> microsecond]

NoTime == Datetime(0, 0, 0)

----------------------------------------------------------------------------
(* The parts of the state a specification does not use stay as constructed *)

SearchIdle ==
    /\ sp_cls = "none"
    /\ sp_max = 0
    /\ sp_sources = <<>>
    /\ sp_sort = "relevance"
    /\ sp_cat = None
    /\ sp_range = NoRange
    /\ sp_now = NoTime
    /\ sp_pc = "idle"
    /\ sp_i = 1
    /\ sp_all = <<>>
    /\ sp_log = <<>>
    /\ sp_outcome = "pending"
    /\ sp_result = <<>>

DedupIdle ==
    /\ dd_in = <<>>
    /\ dd_calls = {}
    /\ dd_out = <<>>
    /\ dd_out2 = <<>>
    /\ dd_again = <<>>

TrendIdle ==
    /\ tt_papers = <<>>
    /\ tt_pc = "idle"
    /\ tt_result = <<>>

GapsIdle ==
    /\ gp_papers = <<>>
    /\ gp_groq = "none"
    /\ gp_pc = "idle"
    /\ gp_result = <<>>

RateIdle ==
    /\ rl_clock = 0
    /\ rl_ticks = 0
    /\ rl_last = <<>>
    /\ rl_pc = <<>>
    /\ rl_src = <<>>
    /\ rl_now = <<>>
    /\ rl_sleep = <<>>
    /\ rl_wake = <<>>
    /\ rl_stamp = <<>>
    /\ rl_calls = <<>>

ScholarIdle ==
    /\ s2_pc = "idle"
    /\ s2_attempt = 0
    /\ s2_log = <<>>
    /\ s2_result = <<>>

CrossrefIdle ==
    /\ cr_item = <<>>
    /\ cr_via = "none"
    /\ cr_pc = "idle"
    /\ cr_paper = <<>>

ReportIdle ==
    /\ rp_papers = <<>>
    /\ rp_groq = "none"
    /\ rp_pc = "idle"
    /\ rp_report = <<>>

PubmedIdle ==
    /\ pm_max = 0
    /\ pm_pc = "idle"
    /\ pm_log = <<>>
    /\ pm_ids = <<>>
    /\ pm_result = <<>>

KeywordsIdle ==
    /\ kw_content = <<>>
    /\ kw_pc = "idle"
    /\ kw_keywords = <<>>

MonitorIdle ==
    /\ mo_fields = <<>>
    /\ mo_groq = "none"
    /\ mo_papers = <<>>
    /\ mo_given = <<>>
    /\ mo_call = <<>>

AuthIdle ==
    /\ au_clock = 0
    /\ au_offset = 0
    /\ au_jumps = 0
    /\ au_sessions = <<>>
    /\ au_issued = {}
    /\ au_latest = <<>>
    /\ au_verdict = <<>>

StartupIdle ==
    /\ research_mate = 0
    /\ citation_analyzer = 0
    /\ research_mate_initialized = FALSE
    /\ initialization_in_progress = FALSE
    /\ init_runs = <<>>
    /\ init_lifespan = "idle"
    /\ init_startup = "idle"
    /\ init_requests = 0

----------------------------------------------------------------------------
(* UnifiedPaperFetcher._deduplicate_papers *)

NoTitle == <<"n", "o", " ", "t", "i", "t", "l", "e">>

\* CleanTitle without the re.sub that removes punctuation
CleanTitle_KeepPunct(title) == CollapseWs(title)

\* the clean_title of a title that is used as an identifier
CleanTitle(title) == CollapseWs(RemovePunct(title))

\* Identifiers with the DOI compared case-sensitively (doi.lower() dropped)
Identifiers_DoiCase(paper) ==
    LET doi == Strip(GetOrEmpty(paper.doi))
        arxiv_id == Strip(GetOrEmpty(paper.arxiv_id))
        pmid == Strip(GetOrEmpty(paper.pmid))
        title == Lower(Strip(GetOrEmpty(paper.title)))
    IN  (IF doi # <<>> THEN << <<"doi", doi>> >> ELSE <<>>)
        \o (IF arxiv_id # <<>> THEN << <<"arxiv", Lower(arxiv_id)>> >> ELSE <<>>)
        \o (IF pmid # <<>> THEN << <<"pmid", pmid>> >> ELSE <<>>)
        \o (IF title # <<>> /\ title # NoTitle
            THEN << <<"title", CleanTitle(title)>> >> ELSE <<>>)

\* the identifiers list built for one paper, in the order doi, arxiv, pmid, title
Identifiers(paper) ==
    LET doi == Strip(GetOrEmpty(paper.doi))
        arxiv_id == Strip(GetOrEmpty(paper.arxiv_id))
        pmid == Strip(GetOrEmpty(paper.pmid))
        title == Lower(Strip(GetOrEmpty(paper.title)))
    IN  (IF doi # <<>> THEN << <<"doi", Lower(doi)>> >> ELSE <<>>)
        \o (IF arxiv_id # <<>> THEN << <<"arxiv", Lower(arxiv_id)>> >> ELSE <<>>)
        \o (IF pmid # <<>> THEN << <<"pmid", pmid>> >> ELSE <<>>)
        \o (IF title # <<>> /\ title # NoTitle
            THEN << <<"title", CleanTitle(title)>> >> ELSE <<>>)

\* DedupFrom that adds the identifiers of a dropped paper to seen as well
RECURSIVE DedupFrom_SeenOfDropped(_, _, _, _)
DedupFrom_SeenOfDropped(papers, i, seen, unique_papers) ==
    IF i > Len(papers) THEN unique_papers
    ELSE LET identifiers == Identifiers(papers[i])
             found_duplicate == \E n \in DOMAIN identifiers : identifiers[n] \in seen
         IN  IF found_duplicate
             THEN DedupFrom_SeenOfDropped(papers, i + 1, seen \cup Range(identifiers),
                                          unique_papers)
             ELSE DedupFrom_SeenOfDropped(papers, i + 1, seen \cup Range(identifiers),
                                          Append(unique_papers, papers[i]))

\* DedupFrom that drops a paper only when all its identifiers were seen
RECURSIVE DedupFrom_AllSeen(_, _, _, _)
DedupFrom_AllSeen(papers, i, seen, unique_papers) ==
    IF i > Len(papers) THEN unique_papers
    ELSE LET identifiers == Identifiers(papers[i])
             found_duplicate == /\ identifiers # <<>>
                                /\ \A n \in DOMAIN identifiers : identifiers[n] \in seen
         IN  IF found_duplicate
             THEN DedupFrom_AllSeen(papers, i + 1, seen, unique_papers)
             ELSE DedupFrom_AllSeen(papers, i + 1, seen \cup Range(identifiers),
                                    Append(unique_papers, papers[i]))

\* DedupFrom that forgets to add the identifiers of a kept paper to seen
RECURSIVE DedupFrom_SeenNotUpdated(_, _, _, _)
DedupFrom_SeenNotUpdated(papers, i, seen, unique_papers) ==
    IF i > Len(papers) THEN unique_papers
    ELSE LET identifiers == Identifiers(papers[i])
             found_duplicate == \E n \in DOMAIN identifiers : identifiers[n] \in seen
         IN  IF found_duplicate
             THEN DedupFrom_SeenNotUpdated(papers, i + 1, seen, unique_papers)
             ELSE DedupFrom_SeenNotUpdated(papers, i + 1, seen,
                                           Append(unique_papers, papers[i]))

\* the loop over papers from position i on, with the seen set and the kept list
RECURSIVE DedupFrom(_, _, _, _)
DedupFrom(papers, i, seen, unique_papers) ==
    IF i > Len(papers) THEN unique_papers
    ELSE LET identifiers == Identifiers(papers[i])
             found_duplicate == \E n \in DOMAIN identifiers : identifiers[n] \in seen
         IN  IF found_duplicate
             THEN DedupFrom(papers, i + 1, seen, unique_papers)
             ELSE DedupFrom(papers, i + 1, seen \cup Range(identifiers),
                            Append(unique_papers, papers[i]))

deduplicate_papers(papers) == DedupFrom(papers, 1, {}, <<>>)

----------------------------------------------------------------------------
(* String comparison and date parsing *)

CodeOf(c) == IndexIn(c, CodeOrder)

\* a < b for Python strings
RECURSIVE StrLess(_, _)
StrLess(a, b) ==
    IF b = <<>> THEN FALSE
    ELSE IF a = <<>> THEN TRUE
    ELSE IF Head(a) = Head(b) THEN StrLess(Tail(a), Tail(b))
    ELSE CodeOf(Head(a)) < CodeOf(Head(b))

AllDigits(s) == \A n \in DOMAIN s : IsDigit(s[n])

RECURSIVE NumVal(_)
NumVal(s) == IF s = <<>> THEN 0 ELSE 10 * NumVal(SubSeq(s, 1, Len(s) - 1)) + (IndexIn(s[Len(s)], Digits) - 1)

\* str.split('-')
RECURSIVE SplitDash(_, _, _)
SplitDash(s, i, cur) ==
    IF i > Len(s) THEN <<cur>>
    ELSE IF s[i] = "-" THEN <<cur>> \o SplitDash(s, i + 1, <<>>)
    ELSE SplitDash(s, i + 1, Append(cur, s[i]))

IsLeap(y) == (y % 4 = 0 /\ y % 100 # 0) \/ y % 400 = 0

DaysInMonth(y, m) ==
    IF m = 2 THEN (IF IsLeap(y) THEN 29 ELSE 28)
    ELSE IF m \in {4, 6, 9, 11} THEN 30 ELSE 31

RECURSIVE DaysBeforeMonth(_, _)
DaysBeforeMonth(y, m) == IF m = 1 THEN 0 ELSE DaysBeforeMonth(y, m - 1) + DaysInMonth(y, m - 1)

\* date.toordinal()
Ordinal(y, m, d) ==
    365 * (y - 1) + ((y - 1) \div 4) - ((y - 1) \div 100) + ((y - 1) \div 400)
    + DaysBeforeMonth(y, m) + d

\* the text %d matches: one or two digits, or a blank followed by a digit
\* other than 0; the digits are returned, <<>> when the text does not match
DayDigits(s) ==
    IF Len(s) \in {1, 2} /\ AllDigits(s) THEN s
    ELSE IF Len(s) = 2 /\ s[1] = " " /\ IsDigit(s[2]) /\ s[2] # "0" THEN <<s[2]>>
    ELSE <<>>

\* datetime.strptime(s, '%Y-%m-%d'): ok = FALSE stands for ValueError
ParseDate(s) ==
    LET parts == SplitDash(s, 1, <<>>)
        shape == /\ Len(parts) = 3
                 /\ Len(parts[1]) = 4 /\ AllDigits(parts[1])
                 /\ Len(parts[2]) \in {1, 2} /\ AllDigits(parts[2])
                 /\ DayDigits(parts[3]) # <<>>
    IN  IF ~shape THEN [ok |-> FALSE, day |-> 0]
        ELSE LET y == NumVal(parts[1])
                 m == NumVal(parts[2])
                 d == NumVal(DayDigits(parts[3]))
             IN  IF y >= 1 /\ m \in 1..12 /\ d >= 1 /\ d <= DaysInMonth(y, m)
                 THEN [ok |-> TRUE, day |-> Ordinal(y, m, d)]
                 ELSE [ok |-> FALSE, day |-> 0]

\* the day of the call
Today == Ordinal(2021, 6, 15)

\* datetime.now() on the day of the call: midnight sharp, the first microsecond
\* after it, and the last microsecond of the day
NowValues == {Datetime(Today, 0, 0), Datetime(Today, 0, 1), Datetime(Today, 86399, 999999)}

----------------------------------------------------------------------------
(* UnifiedPaperFetcher.search_papers and PaperFetcher.search_papers *)

KnownSources == {"arxiv", "semantic_scholar", "crossref", "pubmed"}

\* the names a caller may put in sources: the four sources and one unknown name
SourceNames == KnownSources \cup {"scopus"}

\* what the upstream services hold for the query, in the order they rank it, as
\* the adapters map it to paper dictionaries
ArxivFeed ==
    << [source |-> "ArXiv", doi |-> None, arxiv_id |-> Str(<<"2", "1", ".", "1">>), pmid |-> Missing,
         title |-> Str(<<"A", "b", "!">>),
         published_date |-> Str(<<"2", "0", "2", "1", "-", "0", "6", "-", "0", "1">>)],
       [source |-> "ArXiv", doi |-> Str(<<"1", "0", "/", "x">>), arxiv_id |-> Str(<<"2", "1", ".", "2">>), pmid |-> Missing,
         title |-> Str(<<"C", "d">>),
         published_date |-> Str(<<"2", "0", "2", "1", "-", "0", "5", "-", "1", "6">>)],
       [source |-> "ArXiv", doi |-> None, arxiv_id |-> Str(<<"2", "1", ".", "3">>), pmid |-> Missing,
         title |-> Str(<<"E", "f">>),
         published_date |-> Str(<<"2", "0", "2", "1", "-", "0", "5", "-", "1", "7">>)],
       [source |-> "ArXiv", doi |-> None, arxiv_id |-> Str(<<"2", "1", ".", "4">>), pmid |-> Missing,
         title |-> Str(<<"G", "h">>),
         published_date |-> Str(<<"2", "0", "1", "9", "-", "1", "2", "-", "3", "1">>)] >>

SemanticScholarFeed ==
    << [source |-> "Semantic Scholar", doi |-> Str(<<"1", "0", "/", "Y">>), arxiv_id |-> Str(<<"2", "1", ".", "1">>), pmid |-> Missing,
         title |-> Str(<<"a", "b">>),
         published_date |-> None],
       [source |-> "Semantic Scholar", doi |-> None, arxiv_id |-> None, pmid |-> Missing,
         title |-> None,
         published_date |-> None],
       [source |-> "Semantic Scholar", doi |-> Str(<<"1", "0", "/", "X">>), arxiv_id |-> None, pmid |-> Missing,
         title |-> Str(<<"c", "d", ".">>),
         published_date |-> Str(<<"2", "0", "2", "1", "-", "6", "-", "1">>)],
       [source |-> "Semantic Scholar", doi |-> None, arxiv_id |-> None, pmid |-> Missing,
         title |-> Str(<<"N", "o", " ", "t", "i", "t", "l", "e">>),
         published_date |-> Str(<<>>)] >>

CrossrefFeed ==
    << [source |-> "Crossref", doi |-> Str(<<"1", "0", "/", "y">>), arxiv_id |-> Missing, pmid |-> Missing,
         title |-> Str(<<"A", " ", "b">>),
         published_date |-> Str(<<"2", "0", "2", "1", "-", "0", "1", "-", "0", "1">>)],
       [source |-> "Crossref", doi |-> Str(<<"1", "0", "/", "z">>), arxiv_id |-> Missing, pmid |-> Missing,
         title |-> Str(<<"N", "o", " ", "t", "i", "t", "l", "e">>),
         published_date |-> Str(<<>>)],
       [source |-> "Crossref", doi |-> Str(<<"1", "0", "/", "w">>), arxiv_id |-> Missing, pmid |-> Missing,
         title |-> Str(<<"e", "f">>),
         published_date |-> Str(<<"2", "0", "2", "1", "-", "1", "3", "-", "0", "1">>)],
       [source |-> "Crossref", doi |-> Str(<<"1", "0", "/", "v">>), arxiv_id |-> Missing, pmid |-> Missing,
         title |-> Str(<<"I", "j">>),
         published_date |-> Str(<<"2", "0", "2", "1", "-", "0", "2", "-", "3", "0">>)] >>

PubmedFeed ==
    << [source |-> "PubMed", doi |-> Str(<<"1", "0", "/", "z">>), arxiv_id |-> Missing, pmid |-> Str(<<"7">>),
         title |-> Str(<<"K", "l">>),
         published_date |-> Str(<<"2", "0", "2", "0", "-", "0", "2", "-", "2", "9">>)],
       [source |-> "PubMed", doi |-> Str(<<>>), arxiv_id |-> Missing, pmid |-> Str(<<"8">>),
         title |-> Str(<<"g", "h">>),
         published_date |-> Str(<<"2", "0", "2", "1", "-", "0", "6", "-", "1", "5">>)],
       [source |-> "PubMed", doi |-> Str(<<>>), arxiv_id |-> Missing, pmid |-> Str(<<"9">>),
         title |-> Str(<<"N", "o", " ", "t", "i", "t", "l", "e">>),
         published_date |-> Str(<<"2", "0", "2", "1", "-", "0", "1", "-", " ", "1">>)],
       [source |-> "PubMed", doi |-> Str(<<"1", "0", "/", "W">>), arxiv_id |-> Missing, pmid |-> Str(<<"7">>),
         title |-> Str(<<"M", "n">>),
         published_date |-> Str(<<"2", "0", "2", "1", "-", "0", "5", "-", "1", "5">>)] >>


Feed(source) ==
    CASE source = "arxiv" -> ArxivFeed
      [] source = "semantic_scholar" -> SemanticScholarFeed
      [] source = "crossref" -> CrossrefFeed
      [] source = "pubmed" -> PubmedFeed

Min(a, b) == IF a < b THEN a ELSE b

Max(a, b) == IF a > b THEN a ELSE b

\* the lists an adapter called with max_results may return.  The adapters of
\* Semantic Scholar, Crossref and PubMed put max_results in the request and turn
\* every item of the response into a paper: the list is what the upstream
\* service sent, which may be fewer or more records than were asked for.  The
\* arxiv client stops yielding results after max_results.
AdapterResults(source, max_results) ==
    {SubSeq(Feed(source), 1, n) :
        n \in 0..Min(IF source = "arxiv" THEN Min(max_results, MaxRecords) ELSE MaxRecords,
                     Len(Feed(source)))}

\* every source asked for max_results records
ResultsPerSource_Whole(max_results, sources) == Max(1, max_results)

\* results_per_source = max(1, max_results // len(sources))
ResultsPerSource(max_results, sources) == Max(1, max_results \div Len(sources))

\* the key of the date sort: x.get('published_date', '')
SortKey(paper) == IF paper.published_date.k = "missing" THEN Str(<<>>) ELSE paper.published_date

\* list.sort compares the keys of a list of two or more elements; comparing None
\* with a string or with None raises TypeError
SortRaises(papers) ==
    Len(papers) >= 2 /\ \E n \in DOMAIN papers : SortKey(papers[n]).k = "none"

\* insert paper x into a list ordered by descending key, after its equals
RECURSIVE InsertByDate(_, _)
InsertByDate(sorted, x) ==
    IF sorted = <<>> THEN <<x>>
    ELSE IF StrLess(SortKey(Head(sorted)).s, SortKey(x).s)
         THEN <<x>> \o sorted
         ELSE <<Head(sorted)>> \o InsertByDate(Tail(sorted), x)

RECURSIVE SortByDateFrom(_, _, _)
SortByDateFrom(papers, i, sorted) ==
    IF i > Len(papers) THEN sorted
    ELSE SortByDateFrom(papers, i + 1, InsertByDate(sorted, papers[i]))

\* unique_papers.sort(key=..., reverse=True): stable, newest first
SortByDate(papers) == SortByDateFrom(papers, 1, <<>>)

\* papers[:max_results] without the slice
Truncate_NoSlice(papers, max_results) == papers

\* papers[:max_results] for max_results >= 0
Truncate(papers, max_results) == SubSeq(papers, 1, Min(max_results, Len(papers)))

Days(n) == [k |-> "int", n |-> n]

\* the filter loop of _search_with_enhanced_query for a truthy date_range and
\* cutoff_date = now - timedelta(days=date_range); pub_date is the midnight
\* that begins its day, so pub_date >= cutoff_date holds for a later day, and
\* for the day of the cutoff when the cutoff is that midnight itself
KeptByDate(paper, date_range, now) ==
    LET pub_date_str == SortKey(paper)
        cutoff_date == Datetime(now.day - date_range.n, now.second, now.microsecond)
    IN  IF pub_date_str.k = "none" \/ pub_date_str.s = <<>> THEN TRUE
        ELSE LET pub_date == ParseDate(pub_date_str.s)
             IN  IF pub_date.ok
                 THEN \/ pub_date.day > cutoff_date.day
                      \/ /\ pub_date.day = cutoff_date.day
                         /\ cutoff_date.second = 0 /\ cutoff_date.microsecond = 0
                 ELSE TRUE

RECURSIVE FilterByDate(_, _, _)
FilterByDate(papers, date_range, now) ==
    IF papers = <<>> THEN <<>>
    ELSE (IF KeptByDate(Head(papers), date_range, now) THEN <<Head(papers)>> ELSE <<>>)
         \o FilterByDate(Tail(papers), date_range, now)

\* PaperFetcher.search_papers goes through _search_with_enhanced_query
Enhanced(cls, category, sources) ==
    /\ cls = "PaperFetcher"
    /\ category.k = "str" /\ category.s # <<>>
    /\ \E n \in DOMAIN sources : sources[n] = "arxiv"

\* the date filter of _search_with_enhanced_query runs
Filters(cls, category, sources, date_range) ==
    Enhanced(cls, category, sources) /\ date_range.k = "int" /\ date_range.n # 0

SourceLists == ListsUpTo(SourceNames, MaxSources) \ {<<>>}

CategoryValues == {None, Str(<<"c", "s", ".", "A", "I">>)}

RangeValues == {NoRange, Days(30)}

\* a call of search_papers has been made and is about to enter its loop
SearchInit ==
    /\ sp_cls \in {"UnifiedPaperFetcher", "PaperFetcher"}
    /\ sp_max \in 0..MaxResults
    /\ sp_sources \in SourceLists
    /\ sp_sort \in {"relevance", "date"}
    /\ sp_cat \in (IF sp_cls = "PaperFetcher" THEN CategoryValues ELSE {None})
    /\ sp_range \in (IF sp_cls = "PaperFetcher" THEN RangeValues ELSE {NoRange})
    /\ sp_now \in (IF sp_cls = "PaperFetcher" THEN NowValues ELSE {NoTime})
    /\ sp_pc = "loop"
    /\ sp_i = 1
    /\ sp_all = <<>>
    /\ sp_log = <<>>
    /\ sp_outcome = "pending"
    /\ sp_result = <<>>
    /\ DedupIdle
    /\ TrendIdle
    /\ GapsIdle
    /\ RateIdle
    /\ ScholarIdle
    /\ CrossrefIdle
    /\ ReportIdle
    /\ PubmedIdle
    /\ KeywordsIdle
    /\ MonitorIdle
    /\ AuthIdle
    /\ StartupIdle

SearchInputs == <<sp_cls, sp_max, sp_sources, sp_sort, sp_cat, sp_range, sp_now>>

LogEntry(source, share, kind, papers) ==
    [source |-> source, share |-> share, kind |-> kind, papers |-> papers]

\* one iteration of the loop: the adapter of a known source returns a list
SourceReturns ==
    /\ sp_pc = "loop" /\ sp_i <= Len(sp_sources)
    /\ sp_sources[sp_i] \in KnownSources
    /\ \E papers \in AdapterResults(sp_sources[sp_i], ResultsPerSource(sp_max, sp_sources)) :
          /\ sp_all' = sp_all \o papers
          /\ sp_log' = Append(sp_log, LogEntry(sp_sources[sp_i],
                                ResultsPerSource(sp_max, sp_sources), "returned", papers))
    /\ sp_i' = sp_i + 1
    /\ UNCHANGED <<sp_pc, sp_outcome, sp_result>>
    /\ UNCHANGED SearchInputs
    /\ UNCHANGED <<dd_vars, tt_vars, gp_vars, rl_vars, s2_vars, cr_vars, rp_vars, pm_vars, kw_vars, mo_vars, au_vars, init_vars>>

\* SourceRaises with the exception ending the loop instead of continuing it
SourceRaises_EndsLoop ==
    /\ sp_pc = "loop" /\ sp_i <= Len(sp_sources)
    /\ sp_sources[sp_i] \in KnownSources
    /\ sp_log' = Append(sp_log, LogEntry(sp_sources[sp_i],
                          ResultsPerSource(sp_max, sp_sources), "raised", <<>>))
    /\ sp_i' = Len(sp_sources) + 1
    /\ UNCHANGED <<sp_all, sp_pc, sp_outcome, sp_result>>
    /\ UNCHANGED SearchInputs
    /\ UNCHANGED <<dd_vars, tt_vars, gp_vars, rl_vars, s2_vars, cr_vars, rp_vars, pm_vars, kw_vars, mo_vars, au_vars, init_vars>>

\* one iteration of the loop: the adapter raises, the except clause continues
SourceRaises ==
    /\ sp_pc = "loop" /\ sp_i <= Len(sp_sources)
    /\ sp_sources[sp_i] \in KnownSources
    /\ sp_log' = Append(sp_log, LogEntry(sp_sources[sp_i],
                          ResultsPerSource(sp_max, sp_sources), "raised", <<>>))
    /\ sp_i' = sp_i + 1
    /\ UNCHANGED <<sp_all, sp_pc, sp_outcome, sp_result>>
    /\ UNCHANGED SearchInputs
    /\ UNCHANGED <<dd_vars, tt_vars, gp_vars, rl_vars, s2_vars, cr_vars, rp_vars, pm_vars, kw_vars, mo_vars, au_vars, init_vars>>

\* one iteration of the loop: the source name is not recognised
SourceUnknown ==
    /\ sp_pc = "loop" /\ sp_i <= Len(sp_sources)
    /\ sp_sources[sp_i] \notin KnownSources
    /\ sp_log' = Append(sp_log, LogEntry(sp_sources[sp_i], 0, "unknown", <<>>))
    /\ sp_i' = sp_i + 1
    /\ UNCHANGED <<sp_all, sp_pc, sp_outcome, sp_result>>
    /\ UNCHANGED SearchInputs
    /\ UNCHANGED <<dd_vars, tt_vars, gp_vars, rl_vars, s2_vars, cr_vars, rp_vars, pm_vars, kw_vars, mo_vars, au_vars, init_vars>>

\* after the loop: deduplicate, sort, truncate, and PaperFetcher's date filter
SearchFinish ==
    /\ sp_pc = "loop" /\ sp_i > Len(sp_sources)
    /\ LET unique_papers == deduplicate_papers(sp_all)
           raises == sp_sort = "date" /\ SortRaises(unique_papers)
           sorted == IF sp_sort = "date" /\ ~raises THEN SortByDate(unique_papers)
                     ELSE unique_papers
           papers == Truncate(sorted, sp_max)
       IN  IF raises
           THEN sp_outcome' = "raised" /\ sp_result' = <<>>
           ELSE /\ sp_outcome' = "returned"
                /\ sp_result' = IF Filters(sp_cls, sp_cat, sp_sources, sp_range)
                                THEN FilterByDate(papers, sp_range, sp_now)
                                ELSE papers
    /\ sp_pc' = "done"
    /\ UNCHANGED <<sp_i, sp_all, sp_log>>
    /\ UNCHANGED SearchInputs
    /\ UNCHANGED <<dd_vars, tt_vars, gp_vars, rl_vars, s2_vars, cr_vars, rp_vars, pm_vars, kw_vars, mo_vars, au_vars, init_vars>>

SearchNext == SourceReturns \/ SourceRaises \/ SourceUnknown \/ SearchFinish

SpecSearch == SearchInit /\ [][SearchNext]_vars

----------------------------------------------------------------------------
(* AdvancedTrendMonitor._extract_keywords and counting in a defaultdict *)

stop_words ==
    {<<"t", "h", "e">>, <<"a", "n", "d">>, <<"o", "r">>, <<"b", "u", "t">>, <<"i", "n">>,
     <<"o", "n">>, <<"a", "t">>, <<"t", "o">>, <<"f", "o", "r">>, <<"o", "f">>,
     <<"w", "i", "t", "h">>, <<"b", "y">>, <<"a">>, <<"a", "n">>, <<"i", "s">>, <<"a", "r", "e">>,
     <<"w", "a", "s">>, <<"w", "e", "r", "e">>, <<"b", "e">>, <<"b", "e", "e", "n">>,
     <<"b", "e", "i", "n", "g">>, <<"h", "a", "v", "e">>, <<"h", "a", "s">>, <<"h", "a", "d">>,
     <<"d", "o">>, <<"d", "o", "e", "s">>, <<"d", "i", "d">>, <<"w", "i", "l", "l">>,
     <<"w", "o", "u", "l", "d">>, <<"c", "o", "u", "l", "d">>, <<"s", "h", "o", "u", "l", "d">>,
     <<"m", "a", "y">>, <<"m", "i", "g", "h", "t">>, <<"m", "u", "s", "t">>,
     <<"s", "h", "a", "l", "l">>, <<"c", "a", "n">>, <<"t", "h", "i", "s">>,
     <<"t", "h", "a", "t">>, <<"t", "h", "e", "s", "e">>, <<"t", "h", "o", "s", "e">>,
     <<"w", "e">>, <<"t", "h", "e", "y">>, <<"o", "u", "r">>, <<"t", "h", "e", "i", "r">>,
     <<"u", "s", "i", "n", "g">>, <<"b", "a", "s", "e", "d">>,
     <<"a", "p", "p", "r", "o", "a", "c", "h">>, <<"m", "e", "t", "h", "o", "d">>,
     <<"m", "o", "d", "e", "l">>, <<"p", "a", "p", "e", "r">>, <<"s", "t", "u", "d", "y">>,
     <<"r", "e", "s", "e", "a", "r", "c", "h">>, <<"w", "o", "r", "k">>,
     <<"r", "e", "s", "u", "l", "t", "s">>, <<"s", "h", "o", "w">>,
     <<"p", "r", "o", "p", "o", "s", "e">>, <<"p", "r", "e", "s", "e", "n", "t">>}

\* re.findall(r'\b[a-zA-Z]+\b', content): the maximal runs of \w characters
\* that consist of letters only, in the order of their first characters
FindWords(content) ==
    LET RunStartsAt(i) == IsWordChar(content[i]) /\ (i = 1 \/ ~IsWordChar(content[i - 1]))
        RunEnd(i) == CHOOSE j \in i..Len(content) :
                         /\ \A k \in i..j : IsWordChar(content[k])
                         /\ j = Len(content) \/ ~IsWordChar(content[j + 1])
        runs == [i \in 1..Len(content) |->
                    IF RunStartsAt(i) THEN SubSeq(content, i, RunEnd(i)) ELSE <<>>]
        IsWord(run) == run # <<>> /\ \A n \in DOMAIN run : IsAlpha(run[n])
    IN  SelectSeq(runs, IsWord)

\* len(word) > 3 and word not in stop_words
IsKeyword(word) == Len(word) > 3 /\ word \notin stop_words

\* list(Counter(keywords).keys()): each keyword once, in first-seen order
RECURSIVE CounterKeys(_, _)
CounterKeys(keywords, keys) ==
    IF keywords = <<>> THEN keys
    ELSE CounterKeys(Tail(keywords),
                     IF Head(keywords) \in Range(keys) THEN keys ELSE Append(keys, Head(keywords)))

extract_keywords(content) ==
    LET words == FindWords(Lower(content))
        keys == CounterKeys(SelectSeq(words, IsKeyword), <<>>)
    IN  SubSeq(keys, 1, Min(20, Len(keys)))

\* counts[name] += 1 on a defaultdict(int), kept in insertion order
RECURSIVE Increment(_, _)
Increment(counts, name) ==
    IF counts = <<>> THEN <<[name |-> name, count |-> 1]>>
    ELSE IF Head(counts).name = name
         THEN <<[name |-> name, count |-> Head(counts).count + 1]>> \o Tail(counts)
         ELSE <<Head(counts)>> \o Increment(Tail(counts), name)

RECURSIVE IncrementAll(_, _)
IncrementAll(counts, names) ==
    IF names = <<>> THEN counts
    ELSE IncrementAll(Increment(counts, Head(names)), Tail(names))

----------------------------------------------------------------------------
(* AdvancedTrendMonitor.analyze_temporal_trends *)

\* a 'year' entry that is an integer
YearInt(n) == [k |-> "int", s |-> <<>>, n |-> n]

\* a 'year' entry that is absent, None or a string
YearMissing == [k |-> "missing", s |-> <<>>, n |-> 0]

YearNone == [k |-> "none", s |-> <<>>, n |-> 0]

YearStr(s) == [k |-> "str", s |-> s, n |-> 0]

\* int(s) for a string: blanks around, an optional sign, then digits (single
\* underscores between digits allowed); ok = FALSE stands for ValueError
IntOfStr(s) ==
    LET body == Strip(s)
        signed == body # <<>> /\ Head(body) \in {"+", "-"}
        digits == IF signed THEN Tail(body) ELSE body
        grouped == /\ digits # <<>>
                   /\ \A n \in DOMAIN digits : IsDigit(digits[n]) \/ digits[n] = "_"
                   /\ IsDigit(digits[1]) /\ IsDigit(digits[Len(digits)])
                   /\ \A n \in 1..(Len(digits) - 1) : ~(digits[n] = "_" /\ digits[n + 1] = "_")
    IN  IF grouped
        THEN [ok |-> TRUE, n |-> IF signed /\ Head(body) = "-"
                                 THEN 0 - NumVal(SelectSeq(digits, IsDigit))
                                 ELSE NumVal(SelectSeq(digits, IsDigit))]
        ELSE [ok |-> FALSE, n |-> 0]

\* the year under which the loop counts a paper; ok = FALSE when it skips it
ValidYear(paper) ==
    LET year == paper.year
        falsy == \/ year.k \in {"missing", "none"}
                 \/ (year.k = "int" /\ year.n = 0)
                 \/ (year.k = "str" /\ year.s = <<>>)
        coerced == IF year.k = "str" THEN IntOfStr(year.s) ELSE [ok |-> TRUE, n |-> year.n]
    IN  IF falsy \/ ~coerced.ok THEN [ok |-> FALSE, n |-> 0]
        ELSE IF coerced.n < 1990 \/ coerced.n > 2030 THEN [ok |-> FALSE, n |-> 0]
        ELSE [ok |-> TRUE, n |-> coerced.n]

\* paper.get('title', '').lower() and paper.get('abstract', '').lower() joined by
\* a blank; .lower() on None raises AttributeError
TrendContent(paper) ==
    IF paper.title.k = "none" \/ paper.abstract.k = "none"
    THEN [raises |-> TRUE, s |-> <<>>]
    ELSE [raises |-> FALSE,
          s |-> Lower(GetOrEmpty(paper.title)) \o <<" ">> \o Lower(GetOrEmpty(paper.abstract))]

\* the loop over papers: year_counts as a function on the years seen so far;
\* raised = TRUE when an iteration raised
RECURSIVE CountYearsFrom(_, _, _)
CountYearsFrom(papers, i, year_counts) ==
    IF i > Len(papers) THEN [raised |-> FALSE, year_counts |-> year_counts]
    ELSE LET year == ValidYear(papers[i])
         IN  IF ~year.ok THEN CountYearsFrom(papers, i + 1, year_counts)
             ELSE IF TrendContent(papers[i]).raises
                  THEN [raised |-> TRUE, year_counts |-> year_counts]
                  ELSE CountYearsFrom(papers, i + 1,
                          [y \in DOMAIN year_counts \cup {year.n} |->
                              IF y = year.n
                              THEN (IF y \in DOMAIN year_counts THEN year_counts[y] ELSE 0) + 1
                              ELSE year_counts[y]])

RECURSIVE SumOver(_, _)
SumOver(f, S) ==
    IF S = {} THEN 0
    ELSE LET x == CHOOSE x \in S : TRUE IN f[x] + SumOver(f, S \ {x})

\* the n largest elements of a set of years
RECURSIVE Latest(_, _)
Latest(S, n) ==
    IF n = 0 \/ S = {} THEN {}
    ELSE LET top == CHOOSE y \in S : \A z \in S : z <= y
         IN  {top} \cup Latest(S \ {top}, n - 1)

\* earlier_years taken as years[:-3] whatever the number of years
EarlierYears_BeforeWindow(years) == years \ Latest(years, 3)

\* earlier_years = years[:-3] if len(years) > 3 else years[:-1]
EarlierYears(years) ==
    IF Cardinality(years) > 3 THEN years \ Latest(years, 3) ELSE years \ Latest(years, 1)

\* Natural numbers too large for one machine integer, as sequences of binary
\* digits, most significant first and without leading zeros (0 is <<>>)
RECURSIVE BitsOf(_)
BitsOf(n) == IF n = 0 THEN <<>> ELSE Append(BitsOf(n \div 2), n % 2)

TrimZeros(b) ==
    IF \A i \in DOMAIN b : b[i] = 0 THEN <<>>
    ELSE SubSeq(b, CHOOSE i \in DOMAIN b : b[i] = 1 /\ \A j \in 1..(i - 1) : b[j] = 0, Len(b))

PadTo(b, n) == [i \in 1..n |-> IF i <= n - Len(b) THEN 0 ELSE b[i - (n - Len(b))]]

ShiftLeft(b, k) == IF b = <<>> THEN <<>> ELSE b \o [i \in 1..k |-> 0]

BitsLess(a, b) ==
    \/ Len(a) < Len(b)
    \/ /\ Len(a) = Len(b)
       /\ \E i \in DOMAIN a : a[i] < b[i] /\ \A j \in 1..(i - 1) : a[j] = b[j]

\* -1, 0 or 1 as a is less than, equal to or greater than b
BitsCompare(a, b) == IF BitsLess(a, b) THEN 0 - 1 ELSE IF BitsLess(b, a) THEN 1 ELSE 0

\* x + y for two numbers of n digits: digit i takes a carry when some digit
\* after it makes one that all the digits in between pass on
BitsCarry(x, y, n, i) ==
    \E j \in (i + 1)..n : x[j] + y[j] = 2 /\ \A k \in (i + 1)..(j - 1) : x[k] + y[k] = 1

BitsAddPadded(x, y, n) ==
    TrimZeros([i \in 1..n |-> (x[i] + y[i] + (IF BitsCarry(x, y, n, i) THEN 1 ELSE 0)) % 2])

BitsAdd(a, b) ==
    BitsAddPadded(PadTo(a, Max(Len(a), Len(b)) + 1), PadTo(b, Max(Len(a), Len(b)) + 1),
                  Max(Len(a), Len(b)) + 1)

\* x - y for x >= y of n digits: digit i lends when some digit after it
\* borrows and all the digits in between pass the loan on
BitsBorrow(x, y, n, i) ==
    \E j \in (i + 1)..n : x[j] < y[j] /\ \A k \in (i + 1)..(j - 1) : x[k] = y[k]

BitsSubPadded(x, y, n) ==
    TrimZeros([i \in 1..n |-> (x[i] - y[i] - (IF BitsBorrow(x, y, n, i) THEN 1 ELSE 0) + 2) % 2])

\* a - b for a >= b
BitsSub(a, b) == BitsSubPadded(a, PadTo(b, Len(a)), Len(a))

\* one step of the long division by b > 0: the quotient q gets its next digit
\* for the remainder r, to which the next digit of the dividend was brought down
BitsDivDigit(b, q, r) ==
    IF BitsLess(r, b) THEN [q |-> Append(q, 0), r |-> r]
    ELSE [q |-> Append(q, 1), r |-> BitsSub(r, b)]

BitsDivStep(a, b, s, i) == BitsDivDigit(b, s.q, TrimZeros(Append(s.r, a[i])))

\* the steps lo..hi of the long division of a by b, from the state s after
\* lo - 1 steps
RECURSIVE BitsDivFrom(_, _, _, _, _)
BitsDivFrom(a, b, lo, hi, s) ==
    IF lo > hi \/ Len(s.q) # lo - 1 THEN s
    ELSE IF lo = hi THEN BitsDivStep(a, b, s, lo)
    ELSE BitsDivFrom(a, b, (lo + hi) \div 2 + 1, hi, BitsDivFrom(a, b, lo, (lo + hi) \div 2, s))

BitsDivResult(s) == [q |-> TrimZeros(s.q), r |-> s.r]

\* quotient and remainder of a by b > 0
BitsDiv(a, b) == BitsDivResult(BitsDivFrom(a, b, 1, Len(a), [q |-> <<>>, r |-> <<>>]))

\* A Python float greater than or equal to 0: m * 2^e with m of 53 binary
\* digits (0 is m = <<>>).  A rounding up that carries into a 54th digit
\* leaves 53 digits and a greater exponent
FloatOf(m, e) == IF Len(m) = 54 THEN [m |-> SubSeq(m, 1, 53), e |-> e + 1] ELSE [m |-> m, e |-> e]

\* the float nearest to n * 2^e, ties to the even one; inexact says that the
\* number meant is a little above n * 2^e
RoundBits(n, inexact, e) ==
    IF Len(n) <= 53
    THEN [m |-> ShiftLeft(n, 53 - Len(n)), e |-> IF n = <<>> THEN 0 ELSE e - (53 - Len(n))]
    ELSE IF n[54] = 1 /\ (inexact \/ n[53] = 1 \/ \E i \in 55..Len(n) : n[i] = 1)
    THEN FloatOf(BitsAdd(SubSeq(n, 1, 53), <<1>>), e + Len(n) - 53)
    ELSE FloatOf(SubSeq(n, 1, 53), e + Len(n) - 53)

FloatOfQuot(d, e) == RoundBits(d.q, d.r # <<>>, e)

\* the float nearest to (a * 2^k / b) * 2^(e - k)
FloatQuotShifted(a, b, e, k) == FloatOfQuot(BitsDiv(ShiftLeft(a, k), b), e - k)

\* the float nearest to (a / b) * 2^e, for a and b > 0 given by their digits:
\* the quotient is taken to 55 digits or more
FloatQuot(a, b, e) ==
    IF a = <<>> THEN [m |-> <<>>, e |-> 0]
    ELSE FloatQuotShifted(a, b, e, Max(0, 55 + Len(b) - Len(a)))

\* a * 2^e - b * 2^e: its absolute value, and neg when it is below 0
FloatDiffAligned(a, b, e) ==
    IF BitsLess(a, b) THEN [neg |-> TRUE, abs |-> RoundBits(BitsSub(b, a), FALSE, e)]
    ELSE [neg |-> FALSE, abs |-> RoundBits(BitsSub(a, b), FALSE, e)]

FloatDiffAt(x, y, e) == FloatDiffAligned(ShiftLeft(x.m, x.e - e), ShiftLeft(y.m, y.e - e), e)

\* x - y for two floats
FloatDiff(x, y) == FloatDiffAt(x, y, Min(x.e, y.e))

\* x * 100
FloatTimes100(x) ==
    RoundBits(BitsAdd(BitsAdd(ShiftLeft(x.m, 6), ShiftLeft(x.m, 5)), ShiftLeft(x.m, 2)), FALSE, x.e)

\* -1, 0 or 1 as the float x is below, equal to or above the integer n
FloatAgainst(x, n) ==
    IF x.e >= 0 THEN BitsCompare(ShiftLeft(x.m, x.e), BitsOf(n))
    ELSE BitsCompare(x.m, ShiftLeft(BitsOf(n), 0 - x.e))

\* (recent_avg - earlier_avg) / earlier_avg * 100, for diff = recent_avg - earlier_avg
FloatRateOfDiff(diff, earlier_avg) ==
    [neg |-> diff.neg,
     abs |-> FloatTimes100(FloatQuot(diff.abs.m, earlier_avg.m, diff.abs.e - earlier_avg.e))]

FloatRate(recent_avg, earlier_avg) ==
    FloatRateOfDiff(FloatDiff(recent_avg, earlier_avg), earlier_avg)

\* growth_rate as the code computes it in floats, recent_avg = rs / rn and
\* earlier_avg = es / en > 0: its absolute value, and neg when it is below 0
FloatGrowthRate(rs, rn, es, en) ==
    FloatRate(FloatQuot(BitsOf(rs), BitsOf(rn), 0), FloatQuot(BitsOf(es), BitsOf(en), 0))

\* -1, 0 or 1 as the float rate is below, equal to or above 5 when it is
\* positive, and above, equal to or below -5 when it is negative
FloatRateAgainst5(rate) ==
    IF rate.neg THEN 0 - FloatAgainst(rate.abs, 5) ELSE FloatAgainst(rate.abs, 5)

\* -1, 0 or 1 as the float growth_rate is below, equal to or above the exact
\* rate num / den of the same averages, when that rate is 5 or -5; 0 for every
\* other rate, because the float is then within 10^-12 of a fraction that is at
\* least 1 / den away from 5 and -5 and compares with them as the fraction does
GrowthRateRounding(rs, rn, es, en, num, den) ==
    IF es = 0 \/ (num # 5 * den /\ num # (0 - 5) * den) THEN 0
    ELSE FloatRateAgainst5(FloatGrowthRate(rs, rn, es, en))

\* the thresholds met by a rate equal to them
TrendDirection_Inclusive(num, den, rounding) ==
    IF num >= 5 * den THEN "growing"
    ELSE IF num <= (0 - 5) * den THEN "declining"
    ELSE "stable"

\* 'growing' if growth_rate > 5 else 'declining' if growth_rate < -5 else
\* 'stable', for the float growth_rate that lies at the rate num / den
\* (den > 0), or just above or below it as rounding says
TrendDirection(num, den, rounding) ==
    IF num > 5 * den \/ (num = 5 * den /\ rounding > 0) THEN "growing"
    ELSE IF num < (0 - 5) * den \/ (num = (0 - 5) * den /\ rounding < 0) THEN "declining"
    ELSE "stable"

\* growth_analysis for two or more years: recent_years = years[-3:]; the
\* averages are kept as sum and number of years, growth_rate_percent as the
\* exact fraction rate_num / rate_den of the averages together with the side
\* on which the float the code computes lies when the fraction is 5 or -5
GrowthAnalysis(year_counts) ==
    LET years == DOMAIN year_counts
        recent_years == Latest(years, 3)
        earlier_years == EarlierYears(years)
        rs == SumOver(year_counts, recent_years)
        rn == Cardinality(recent_years)
        es == SumOver(year_counts, earlier_years)
        en == Cardinality(earlier_years)
        num == IF es > 0 THEN 100 * (rs * en - es * rn) ELSE 0
        den == IF es > 0 THEN es * rn ELSE 1
        rounding == GrowthRateRounding(rs, rn, es, en, num, den)
    IN  [recent_years |-> recent_years, earlier_years |-> earlier_years,
         recent_sum |-> rs, earlier_sum |-> es,
         rate_num |-> num, rate_den |-> den, rate_rounding |-> rounding,
         trend_direction |-> TrendDirection(num, den, rounding)]

NoGrowth == [recent_years |-> {}, earlier_years |-> {}, recent_sum |-> 0, earlier_sum |-> 0,
             rate_num |-> 0, rate_den |-> 1, rate_rounding |-> 0, trend_direction |-> "absent"]

\* the counts and the growth analysis of the dictionary analyze_temporal_trends
\* returns (AnalyzeTemporalTrends adds the keyword tables and topic lists)
TemporalTrends(papers) ==
    IF papers = <<>> THEN [error |-> TRUE, publication_trend |-> <<>>, growth_analysis |-> NoGrowth,
                           total_papers |-> 0, total_years |-> 0]
    ELSE LET counted == CountYearsFrom(papers, 1, <<>>)
             year_counts == counted.year_counts
         IN  IF counted.raised
             THEN [error |-> TRUE, publication_trend |-> <<>>, growth_analysis |-> NoGrowth,
                   total_papers |-> 0, total_years |-> 0]
             ELSE [error |-> FALSE,
                   publication_trend |-> year_counts,
                   growth_analysis |-> IF Cardinality(DOMAIN year_counts) >= 2
                                       THEN GrowthAnalysis(year_counts) ELSE NoGrowth,
                   total_papers |-> SumOver(year_counts, DOMAIN year_counts),
                   total_years |-> Cardinality(DOMAIN year_counts)]

YearValues == {YearMissing, YearNone, YearInt(0), YearInt(1989), YearInt(1990), YearInt(2030), YearInt(2031),
               YearStr(<<"2", "0", "2", "1">>), YearStr(<<" ", "2", "0", "3", "0", " ">>),
               YearStr(<<"n", "/", "a">>), YearStr(<<>>), YearStr(<<"2", "_", "0", "2", "2">>)}

TrendPool == [year : YearValues,
              title : {Missing, None, Str(<<"D", "e", "e", "p", " ", "N", "e", "t", "s">>)},
              abstract : {None, Str(<<"g", "r", "a", "p", "h", " ", "d", "a", "t", "a">>)}]

TrendInit ==
    /\ tt_papers \in ListsUpTo(TrendPool, MaxTrendPapers)
    /\ tt_pc = "call"
    /\ tt_result = <<>>
    /\ DedupIdle
    /\ SearchIdle
    /\ GapsIdle
    /\ RateIdle
    /\ ScholarIdle
    /\ CrossrefIdle
    /\ ReportIdle
    /\ PubmedIdle
    /\ KeywordsIdle
    /\ MonitorIdle
    /\ AuthIdle
    /\ StartupIdle

\* the paper the gap corpora are filled up with
FillerPaper == [title |-> Str(<<"R", "o", "b", "o", "t">>), abstract |-> Str(<<"r", "o", "b", "o", "t", "i", "c", " ", "c", "o", "n", "t", "r", "o", "l">>)]

\* a paper of year y of the growth corpora
GrowthPaper(y) ==
    [year |-> YearInt(y), title |-> Str(<<"N", "e", "t">>), abstract |-> Str(<<"d", "a", "t", "a">>)]

\* title and abstract of the papers handed to two calls on one monitor
MonitorTexts ==
    {[title |-> None, abstract |-> None], FillerPaper,
     [title |-> GrowthPaper(2018).title, abstract |-> GrowthPaper(2018).abstract]}

\* the keywords of each paper of the model whose title and abstract are not
\* None, computed once per distinct pair of title and abstract
KeywordsOf ==
    [text \in {[title |-> paper.title, abstract |-> paper.abstract] :
                  paper \in {q \in TrendPool \cup {GrowthPaper(2018)} \cup MonitorTexts :
                                ~TrendContent(q).raises}} |->
        extract_keywords(TrendContent(text).s)]

\* the keywords of the papers counted under a year, in the order in which the
\* loop over papers first sees them (the keys of keyword_evolution[year])
RECURSIVE FirstSeenFrom(_, _, _, _)
FirstSeenFrom(papers, i, year, keys) ==
    IF i > Len(papers) THEN keys
    ELSE IF ValidYear(papers[i]) = [ok |-> TRUE, n |-> year]
    THEN FirstSeenFrom(papers, i + 1, year,
             CounterKeys(KeywordsOf[[title |-> papers[i].title, abstract |-> papers[i].abstract]],
                         keys))
    ELSE FirstSeenFrom(papers, i + 1, year, keys)

\* keyword_evolution after the loop over papers (none of which raises): for
\* each counted year with keywords, the keywords in first-seen order, each with
\* the number of papers of the year that have it
KeywordEvolution(papers, years) ==
    LET Has(year, keyword) ==
            {i \in DOMAIN papers :
                /\ ValidYear(papers[i]) = [ok |-> TRUE, n |-> year]
                /\ keyword \in Range(KeywordsOf[[title |-> papers[i].title,
                                                 abstract |-> papers[i].abstract]])}
        table == [year \in years |-> FirstSeenFrom(papers, 1, year, <<>>)]
    IN  [year \in {y \in years : table[y] # <<>>} |->
            [n \in DOMAIN table[year] |->
                [name |-> table[year][n], count |-> Cardinality(Has(year, table[year][n]))]]]

\* list(topics)[:10] for a set of strings: the iteration order of a set depends
\* on the hashes of its elements, which change from one interpreter run to the
\* next, so every order is possible
TopicLists(topics) ==
    LET orders == {order \in [1..Cardinality(topics) -> topics] :
                      \A m, n \in DOMAIN order : m # n => order[m] # order[n]}
    IN  {SubSeq(order, 1, Min(10, Len(order))) : order \in orders}

\* the entries emerging_topics / declining_topics can take: the keywords of
\* one year that are not keywords of the other
TopicOutcomes(keyword_evolution, year, other) ==
    LET KeysOf(y) == IF y \in DOMAIN keyword_evolution
                     THEN {keyword_evolution[y][n].name : n \in DOMAIN keyword_evolution[y]}
                     ELSE {}
        topics == KeysOf(year) \ KeysOf(other)
    IN  {[topics |-> list, count |-> Cardinality(topics)] : list \in TopicLists(topics)}

NoTopics == [topics |-> <<>>, count |-> 0]

\* analyze_temporal_trends(papers): the record of TemporalTrends together with
\* keyword_evolution and, for two or more years, the topic lists of the latest
\* year against the one before
AnalyzeTemporalTrends ==
    /\ tt_pc = "call"
    /\ \E trends \in {TemporalTrends(tt_papers)} :
       \E keyword_evolution \in {IF trends.error THEN <<>>
                                  ELSE KeywordEvolution(tt_papers, DOMAIN trends.publication_trend)} :
         LET years == DOMAIN trends.publication_trend
             recent_year == CHOOSE y \in years : \A z \in years : z <= y
             previous_year == CHOOSE y \in years \ {recent_year} :
                                  \A z \in years \ {recent_year} : z <= y
             Result(emerging, declining) ==
                 [error |-> trends.error,
                  publication_trend |-> trends.publication_trend,
                  growth_analysis |-> trends.growth_analysis,
                  total_papers |-> trends.total_papers,
                  total_years |-> trends.total_years,
                  keyword_evolution |-> keyword_evolution,
                  emerging_topics |-> emerging,
                  declining_topics |-> declining]
         IN  IF trends.error \/ Cardinality(years) < 2
             THEN tt_result' = Result(NoTopics, NoTopics)
             ELSE \E emerging \in TopicOutcomes(keyword_evolution, recent_year, previous_year),
                     declining \in TopicOutcomes(keyword_evolution, previous_year, recent_year) :
                      tt_result' = Result(emerging, declining)
    /\ tt_pc' = "done"
    /\ UNCHANGED tt_papers
    /\ UNCHANGED <<dd_vars, sp_vars, gp_vars, rl_vars, s2_vars, cr_vars, rp_vars, pm_vars, kw_vars, mo_vars, au_vars, init_vars>>

TrendNext == AnalyzeTemporalTrends

SpecTrend == TrendInit /\ [][TrendNext]_vars

----------------------------------------------------------------------------
(* AdvancedTrendMonitor.detect_research_gaps *)

\* area_keywords, in the order of the dictionary literal
area_keywords ==
    << [name |-> "natural_language_processing",
        keywords |-> <<<<"n", "l", "p">>,
                      <<"l", "a", "n", "g", "u", "a", "g", "e">>,
                      <<"t", "e", "x", "t">>,
                      <<"l", "i", "n", "g", "u", "i", "s", "t", "i", "c">>>>],
       [name |-> "computer_vision",
        keywords |-> <<<<"v", "i", "s", "i", "o", "n">>,
                      <<"i", "m", "a", "g", "e">>,
                      <<"v", "i", "s", "u", "a", "l">>,
                      <<"c", "v">>>>],
       [name |-> "machine_learning",
        keywords |-> <<<<"m", "l">>,
                      <<"l", "e", "a", "r", "n", "i", "n", "g">>,
                      <<"a", "l", "g", "o", "r", "i", "t", "h", "m">>,
                      <<"m", "o", "d", "e", "l">>>>],
       [name |-> "deep_learning",
        keywords |-> <<<<"d", "e", "e", "p">>,
                      <<"n", "e", "u", "r", "a", "l">>,
                      <<"n", "e", "t", "w", "o", "r", "k">>,
                      <<"c", "n", "n">>,
                      <<"r", "n", "n">>>>],
       [name |-> "reinforcement_learning",
        keywords |-> <<<<"r", "e", "i", "n", "f", "o", "r", "c", "e", "m", "e", "n", "t">>,
                      <<"r", "l">>,
                      <<"a", "g", "e", "n", "t">>,
                      <<"p", "o", "l", "i", "c", "y">>>>],
       [name |-> "robotics",
        keywords |-> <<<<"r", "o", "b", "o", "t">>,
                      <<"r", "o", "b", "o", "t", "i", "c">>,
                      <<"m", "a", "n", "i", "p", "u", "l", "a", "t", "i", "o", "n">>,
                      <<"c", "o", "n", "t", "r", "o", "l">>>>],
       [name |-> "healthcare",
        keywords |-> <<<<"m", "e", "d", "i", "c", "a", "l">>,
                      <<"h", "e", "a", "l", "t", "h">>,
                      <<"c", "l", "i", "n", "i", "c", "a", "l">>,
                      <<"p", "a", "t", "i", "e", "n", "t">>>>],
       [name |-> "finance",
        keywords |-> <<<<"f", "i", "n", "a", "n", "c", "i", "a", "l">>,
                      <<"t", "r", "a", "d", "i", "n", "g">>,
                      <<"m", "a", "r", "k", "e", "t">>,
                      <<"e", "c", "o", "n", "o", "m", "i", "c">>>>],
       [name |-> "security",
        keywords |-> <<<<"s", "e", "c", "u", "r", "i", "t", "y">>,
                      <<"p", "r", "i", "v", "a", "c", "y">>,
                      <<"a", "t", "t", "a", "c", "k">>,
                      <<"d", "e", "f", "e", "n", "s", "e">>>>] >>

\* method_keywords, in the order of the dictionary literal
method_keywords ==
    << [name |-> "supervised_learning",
        keywords |-> <<<<"s", "u", "p", "e", "r", "v", "i", "s", "e", "d">>,
                      <<"c", "l", "a", "s", "s", "i", "f", "i", "c", "a", "t", "i", "o", "n">>,
                      <<"r", "e", "g", "r", "e", "s", "s", "i", "o", "n">>>>],
       [name |-> "unsupervised_learning",
        keywords |-> <<<<"u", "n", "s", "u", "p", "e", "r", "v", "i", "s", "e", "d">>,
                      <<"c", "l", "u", "s", "t", "e", "r", "i", "n", "g">>,
                      <<"d", "i", "m", "e", "n", "s", "i", "o", "n", "a", "l", "i", "t", "y">>>>],
       [name |-> "semi_supervised",
        keywords |-> <<<<"s", "e", "m", "i", "-", "s", "u", "p", "e", "r", "v", "i", "s", "e", "d">>,
                      <<"f", "e", "w", "-", "s", "h", "o", "t">>,
                      <<"z", "e", "r", "o", "-", "s", "h", "o", "t">>>>],
       [name |-> "transfer_learning",
        keywords |-> <<<<"t", "r", "a", "n", "s", "f", "e", "r">>,
                      <<"d", "o", "m", "a", "i", "n", " ", "a", "d", "a", "p", "t", "a", "t", "i", "o", "n">>,
                      <<"f", "i", "n", "e", "-", "t", "u", "n", "i", "n", "g">>>>],
       [name |-> "federated_learning",
        keywords |-> <<<<"f", "e", "d", "e", "r", "a", "t", "e", "d">>,
                      <<"d", "i", "s", "t", "r", "i", "b", "u", "t", "e", "d">>,
                      <<"d", "e", "c", "e", "n", "t", "r", "a", "l", "i", "z", "e", "d">>>>],
       [name |-> "meta_learning",
        keywords |-> <<<<"m", "e", "t", "a">>,
                      <<"l", "e", "a", "r", "n", "i", "n", "g", " ", "t", "o", " ", "l", "e", "a", "r", "n">>,
                      <<"f", "e", "w", "-", "s", "h", "o", "t">>>>],
       [name |-> "explainable_ai",
        keywords |-> <<<<"e", "x", "p", "l", "a", "i", "n", "a", "b", "l", "e">>,
                      <<"i", "n", "t", "e", "r", "p", "r", "e", "t", "a", "b", "l", "e">>,
                      <<"e", "x", "p", "l", "a", "n", "a", "t", "i", "o", "n">>>>],
       [name |-> "adversarial",
        keywords |-> <<<<"a", "d", "v", "e", "r", "s", "a", "r", "i", "a", "l">>,
                      <<"r", "o", "b", "u", "s", "t">>,
                      <<"a", "t", "t", "a", "c", "k">>>>] >>

\* the if / elif chain over the data types, in its order
data_type_words ==
    << [name |-> "text",
        keywords |-> <<<<"t", "e", "x", "t">>,
                      <<"c", "o", "r", "p", "u", "s">>,
                      <<"l", "a", "n", "g", "u", "a", "g", "e">>>>],
       [name |-> "image",
        keywords |-> <<<<"i", "m", "a", "g", "e">>,
                      <<"v", "i", "s", "u", "a", "l">>,
                      <<"v", "i", "d", "e", "o">>>>],
       [name |-> "audio",
        keywords |-> <<<<"a", "u", "d", "i", "o">>,
                      <<"s", "p", "e", "e", "c", "h">>,
                      <<"s", "o", "u", "n", "d">>>>],
       [name |-> "sensor",
        keywords |-> <<<<"s", "e", "n", "s", "o", "r">>,
                      <<"i", "o", "t">>,
                      <<"t", "i", "m", "e", " ", "s", "e", "r", "i", "e", "s">>>>] >>

DataWords == <<<<"d", "a", "t", "a", "s", "e", "t">>, <<"d", "a", "t", "a">>>>

GapPool ==
    { [title |-> None,
       abstract |-> None],
      [title |-> Missing,
       abstract |-> Str(<<"F", "i", "n", "a", "n", "c", "i", "a", "l", " ", "m", "a", "r", "k", "e", "t", " ", "d", "a", "t", "a">>)],
      [title |-> Missing,
       abstract |-> Str(<<"s", "u", "p", "e", "r", "v", "i", "s", "e", "d", " ", "t", "e", "x", "t", " ", "d", "a", "t", "a", "s", "e", "t", " ", "o", "f", " ", "i", "m", "a", "g", "e", "s">>)],
      [title |-> Missing,
       abstract |-> Str(<<"w", "o", "r", "l", "d", " ", "m", "o", "d", "e", "l">>)],
      [title |-> Str(<<"A", "d", "v", "e", "r", "s", "a", "r", "i", "a", "l", " ", "r", "o", "b", "o", "t", " ", "a", "t", "t", "a", "c", "k">>),
       abstract |-> Missing],
      [title |-> Str(<<"I", "m", "a", "g", "e", " ", "d", "a", "t", "a">>),
       abstract |-> Str(<<"s", "o", "u", "n", "d">>)],
      [title |-> Str(<<"R", "o", "b", "o", "t", " ", "h", "e", "a", "l", "t", "h">>),
       abstract |-> Str(<<"s", "e", "n", "s", "o", "r", " ", "d", "a", "t", "a">>)] }


MethodThreshold == 5

AreaThreshold == 10

DataTypeThreshold == 15

\* what an f-string makes of paper.get(key, ''): None is written "None"
FormatValue(v) ==
    IF v.k = "none" THEN <<"N", "o", "n", "e">> ELSE IF v.k = "str" THEN v.s ELSE <<>>

\* GapContent with .lower() called on each field, as analyze_temporal_trends does
GapContent_LowerEach(paper) ==
    IF paper.title.k = "none" \/ paper.abstract.k = "none"
    THEN [raises |-> TRUE, s |-> <<>>]
    ELSE [raises |-> FALSE,
          s |-> Lower(FormatValue(paper.title) \o <<" ">> \o FormatValue(paper.abstract))]

\* content = f"{paper.get('title', '')} {paper.get('abstract', '')}".lower()
GapContent(paper) ==
    [raises |-> FALSE,
     s |-> Lower(FormatValue(paper.title) \o <<" ">> \o FormatValue(paper.abstract))]

\* word in content
Contains(content, word) ==
    \E n \in 1..(Len(content) - Len(word) + 1) :
        SubSeq(content, n, n + Len(word) - 1) = word

\* any(keyword in content for keyword in keywords)
AnyKeyword(content, keywords) == \E n \in DOMAIN keywords : Contains(content, keywords[n])

\* the names of the categories of a table whose test succeeds, in table order
RECURSIVE MatchedNames(_, _, _)
MatchedNames(table, i, content) ==
    IF i > Len(table) THEN <<>>
    ELSE (IF AnyKeyword(content, table[i].keywords) THEN <<table[i].name>> ELSE <<>>)
         \o MatchedNames(table, i + 1, content)

\* the data type the if / elif chain counts the paper under, if any
DataTypeOf(content) ==
    IF ~AnyKeyword(content, DataWords) THEN <<>>
    ELSE LET hits == MatchedNames(data_type_words, 1, content)
         IN  IF hits # <<>> THEN <<Head(hits)>> ELSE <<"tabular">>

\* what one iteration of the loop over papers increments
PaperMatches(paper) ==
    LET content == GapContent(paper)
    IN  [raises |-> content.raises,
         areas |-> MatchedNames(area_keywords, 1, content.s),
         methods |-> MatchedNames(method_keywords, 1, content.s),
         data_types |-> DataTypeOf(content.s)]

\* PaperMatches of the papers of the model, computed once per distinct paper
MatchTable == [paper \in GapPool \cup {FillerPaper} \cup MonitorTexts |-> PaperMatches(paper)]

\* the loop over papers
RECURSIVE CountCategoriesFrom(_, _, _)
CountCategoriesFrom(papers, i, acc) ==
    IF i > Len(papers) THEN acc
    ELSE LET m == MatchTable[papers[i]]
         IN  IF m.raises THEN [acc EXCEPT !.raised = TRUE]
             ELSE CountCategoriesFrom(papers, i + 1,
                     [raised |-> FALSE,
                      research_areas |-> IncrementAll(acc.research_areas, m.areas),
                      methodologies |-> IncrementAll(acc.methodologies, m.methods),
                      data_types |-> IncrementAll(acc.data_types, m.data_types)])

\* for name, count in counts.items(): coverage = (count / total_papers) * 100;
\* if coverage < threshold: append an entry.  coverage_percent is kept as the
\* pair papers_count, total_papers
RECURSIVE GapsBelow(_, _, _)
GapsBelow(counts, threshold, total_papers) ==
    IF counts = <<>> THEN <<>>
    ELSE (IF Head(counts).count * 100 < threshold * total_papers
          THEN <<[category |-> Head(counts).name, papers_count |-> Head(counts).count,
                  total_papers |-> total_papers]>>
          ELSE <<>>)
         \o GapsBelow(Tail(counts), threshold, total_papers)

GapError ==
    [error |-> TRUE, methodology_gaps |-> <<>>, research_area_gaps |-> <<>>,
     data_type_gaps |-> <<>>, ai_analysis |-> "absent", total_papers_analyzed |-> 0]

\* _generate_ai_gap_analysis: the response, or the text of the caught exception
AiGapAnalysis(groq) == IF groq = "raises" THEN "AI gap analysis failed" ELSE "response"

\* the dictionary detect_research_gaps returns
ResearchGaps(papers, groq) ==
    IF papers = <<>> THEN GapError
    ELSE LET counted == CountCategoriesFrom(papers, 1,
                            [raised |-> FALSE, research_areas |-> <<>>,
                             methodologies |-> <<>>, data_types |-> <<>>])
             total_papers == Len(papers)
         IN  IF counted.raised THEN GapError
             ELSE [error |-> FALSE,
                   methodology_gaps |-> GapsBelow(counted.methodologies, MethodThreshold, total_papers),
                   research_area_gaps |-> GapsBelow(counted.research_areas, AreaThreshold, total_papers),
                   data_type_gaps |-> GapsBelow(counted.data_types, DataTypeThreshold, total_papers),
                   ai_analysis |-> IF groq # "none" THEN AiGapAnalysis(groq) ELSE "absent",
                   total_papers_analyzed |-> total_papers]

RECURSIVE Copies(_, _)
Copies(x, n) == IF n = 0 THEN <<>> ELSE <<x>> \o Copies(x, n - 1)

\* a corpus: a few papers of GapPool before or after copies of FillerPaper
GapCorpora ==
    {l \o Copies(FillerPaper, n) : l \in ListsUpTo(GapPool, MaxGapPapers), n \in 0..MaxFiller}
    \cup {Copies(FillerPaper, n) \o l : l \in ListsUpTo(GapPool, MaxGapPapers), n \in 0..MaxFiller}

GapsInit ==
    /\ gp_papers \in GapCorpora
    /\ gp_groq \in {"none", "answers", "raises"}
    /\ gp_pc = "call"
    /\ gp_result = <<>>
    /\ DedupIdle
    /\ SearchIdle
    /\ TrendIdle
    /\ RateIdle
    /\ ScholarIdle
    /\ CrossrefIdle
    /\ ReportIdle
    /\ PubmedIdle
    /\ KeywordsIdle
    /\ MonitorIdle
    /\ AuthIdle
    /\ StartupIdle

\* detect_research_gaps(papers)
DetectResearchGaps ==
    /\ gp_pc = "call"
    /\ gp_result' = ResearchGaps(gp_papers, gp_groq)
    /\ gp_pc' = "done"
    /\ UNCHANGED <<gp_papers, gp_groq>>
    /\ UNCHANGED <<dd_vars, sp_vars, tt_vars, rl_vars, s2_vars, cr_vars, rp_vars, pm_vars, kw_vars, mo_vars, au_vars, init_vars>>

GapsNext == DetectResearchGaps

SpecGaps == GapsInit /\ [][GapsNext]_vars

----------------------------------------------------------------------------
(* Corpora with given numbers of papers per year, for growth_analysis *)

\* the publication years of a growth corpus
GrowthYears == 2018..(2017 + MaxGrowthYears)

\* papers per year: none, or the counts of the documented examples (2 and 10,
\* 5 and 20), or counts around a growth rate of +5% and -5% (9, 10, 11)
CountValues == {{0, 2, 10}, {0, 5, 20}, {0, 9, 10, 11}}

\* table[y] papers of each year y, the latest year first
RECURSIVE CorpusOf(_, _)
CorpusOf(table, years) ==
    IF years = {} THEN <<>>
    ELSE LET y == CHOOSE y \in years : \A z \in years : z <= y
         IN  Copies(GrowthPaper(y), table[y]) \o CorpusOf(table, years \ {y})

\* six years of papers whose earlier and recent averages are thirds that no
\* float holds exactly: sums 20 and 19 (a rate of -5%, computed as
\* -5.000000000000009) and sums 20 and 21 (5%, computed as 4.999999999999996)
RoundingYears == 2018..2023

RoundingTables ==
    {[y \in RoundingYears |-> counts[y - 2017]] : counts \in {<<7, 7, 6, 6, 6, 7>>, <<6, 7, 7, 7, 7, 7>>}}

GrowthCorpora ==
    {CorpusOf(table, GrowthYears) : table \in UNION {[GrowthYears -> counts] : counts \in CountValues}}
        \cup {CorpusOf(table, RoundingYears) : table \in RoundingTables}

GrowthInit ==
    /\ tt_papers \in GrowthCorpora
    /\ tt_pc = "call"
    /\ tt_result = <<>>
    /\ DedupIdle
    /\ SearchIdle
    /\ GapsIdle
    /\ RateIdle
    /\ ScholarIdle
    /\ CrossrefIdle
    /\ ReportIdle
    /\ PubmedIdle
    /\ KeywordsIdle
    /\ MonitorIdle
    /\ AuthIdle
    /\ StartupIdle

SpecGrowth == GrowthInit /\ [][TrendNext]_vars

----------------------------------------------------------------------------
(* Inputs of the deduplication checks *)

DoiValues == {None, Str(<<>>), Str(<<" ">>), Str(<<"a", "B">>), Str(<<"A", "b", " ">>), Str(<<"c">>)}

ArxivValues == {None, Str(<<"X", "1">>)}

PmidValues == {Missing, Str(<<"7">>)}

TitleValues == {None, Str(<<>>), Str(<<" ">>), Str(<<"N", "o", " ", "t", "i", "t", "l", "e">>),
                Str(<<"N", "O", " ", "T", "I", "T", "L", "E", " ">>),
                Str(<<"A", "b", "!">>), Str(<<"a", "b">>), Str(<<"a", " ", " ", "b">>),
                Str(<<"A", " ", "b", ".">>), Str(<<"!", "!">>)}

\* every combination of the identifier fields
FullPool == [doi : DoiValues, arxiv_id : ArxivValues, pmid : PmidValues, title : TitleValues]

\* a few papers for longer lists
SmallPool == [doi : {None, Str(<<"a", "B">>), Str(<<"A", "b", " ">>)},
              arxiv_id : {None}, pmid : {Missing},
              title : {None, Str(<<"N", "o", " ", "t", "i", "t", "l", "e">>),
                       Str(<<"A", "b", "!">>), Str(<<"a", "b">>)}]

DedupInputs == ListsUpTo(SmallPool, MaxLen) \cup {<<a, b>> : a \in FullPool, b \in FullPool}

----------------------------------------------------------------------------
(* Specification of the deduplication calls *)

DedupInit ==
    /\ dd_in \in DedupInputs
    /\ dd_calls = {}
    /\ dd_out = <<>>
    /\ dd_out2 = <<>>
    /\ dd_again = <<>>
    /\ SearchIdle
    /\ TrendIdle
    /\ GapsIdle
    /\ RateIdle
    /\ ScholarIdle
    /\ CrossrefIdle
    /\ ReportIdle
    /\ PubmedIdle
    /\ KeywordsIdle
    /\ MonitorIdle
    /\ AuthIdle
    /\ StartupIdle

\* _deduplicate_papers(P)
DedupOnce ==
    /\ "once" \notin dd_calls
    /\ dd_out' = deduplicate_papers(dd_in)
    /\ dd_calls' = dd_calls \cup {"once"}
    /\ UNCHANGED <<dd_in, dd_out2, dd_again>>
    /\ UNCHANGED <<sp_vars, tt_vars, gp_vars, rl_vars, s2_vars, cr_vars, rp_vars, pm_vars, kw_vars, mo_vars, au_vars, init_vars>>

\* _deduplicate_papers(P + P)
DedupDoubled ==
    /\ "doubled" \notin dd_calls
    /\ dd_out2' = deduplicate_papers(dd_in \o dd_in)
    /\ dd_calls' = dd_calls \cup {"doubled"}
    /\ UNCHANGED <<dd_in, dd_out, dd_again>>
    /\ UNCHANGED <<sp_vars, tt_vars, gp_vars, rl_vars, s2_vars, cr_vars, rp_vars, pm_vars, kw_vars, mo_vars, au_vars, init_vars>>

\* _deduplicate_papers called on the list _deduplicate_papers(P) returned
DedupAgain ==
    /\ "once" \in dd_calls
    /\ "again" \notin dd_calls
    /\ dd_again' = deduplicate_papers(dd_out)
    /\ dd_calls' = dd_calls \cup {"again"}
    /\ UNCHANGED <<dd_in, dd_out, dd_out2>>
    /\ UNCHANGED <<sp_vars, tt_vars, gp_vars, rl_vars, s2_vars, cr_vars, rp_vars, pm_vars, kw_vars, mo_vars, au_vars, init_vars>>

DedupNext == DedupOnce \/ DedupDoubled \/ DedupAgain

SpecDedup == DedupInit /\ [][DedupNext]_vars

----------------------------------------------------------------------------
(* UnifiedPaperFetcher._rate_limit *)

\* self.min_request_interval, in hundredths of a second
min_request_interval ==
    [semantic_scholar |-> 500, crossref |-> 10, pubmed |-> 34, arxiv |-> 300]

\* time.time() when the fetcher is constructed: further from 0, the default of
\* last_request_time.get(source, 0), than the longest interval
Epoch == 2 * min_request_interval.semantic_scholar

Threads == 1..MaxThreads

RateInit ==
    /\ rl_clock = Epoch
    /\ rl_ticks = 0
    /\ rl_last = [s \in DOMAIN min_request_interval |-> 0]
    /\ rl_pc = [t \in Threads |-> "idle"]
    /\ rl_src = [t \in Threads |-> "none"]
    /\ rl_now = [t \in Threads |-> 0]
    /\ rl_sleep = [t \in Threads |-> 0]
    /\ rl_wake = [t \in Threads |-> 0]
    /\ rl_stamp = [t \in Threads |-> 0]
    /\ rl_calls = <<>>
    /\ DedupIdle
    /\ SearchIdle
    /\ TrendIdle
    /\ GapsIdle
    /\ ScholarIdle
    /\ CrossrefIdle
    /\ ReportIdle
    /\ PubmedIdle
    /\ KeywordsIdle
    /\ MonitorIdle
    /\ AuthIdle
    /\ StartupIdle

\* thread t calls _rate_limit(s): now = time.time()
RateLimitEnter(t, s) ==
    /\ rl_pc[t] = "idle"
    /\ Len(rl_calls) + Cardinality({u \in Threads : rl_pc[u] # "idle"}) < MaxCalls
    /\ rl_now' = [rl_now EXCEPT ![t] = rl_clock]
    /\ rl_src' = [rl_src EXCEPT ![t] = s]
    /\ rl_pc' = [rl_pc EXCEPT ![t] = "read"]
    /\ UNCHANGED <<rl_clock, rl_ticks, rl_last, rl_sleep, rl_wake, rl_stamp, rl_calls>>
    /\ UNCHANGED <<dd_vars, sp_vars, tt_vars, gp_vars, s2_vars, cr_vars, rp_vars, pm_vars, kw_vars, mo_vars, au_vars, init_vars>>

\* sequential use: every call is made by the one thread that uses the fetcher,
\* after its previous call returned
SequentialEnter(s) == RateLimitEnter(1, s)

\* thread t reads self.last_request_time.get(source, 0), in which another
\* thread may have stored a time later than now, and goes on up to the call of
\* time.sleep, made when less than the interval has passed
RateLimitRead(t) ==
    /\ rl_pc[t] = "read"
    /\ LET now == rl_now[t]
           last_request == rl_last[rl_src[t]]
           interval == min_request_interval[rl_src[t]]
           time_since_last == now - last_request
           sleep_time == interval - time_since_last
       IN  IF time_since_last < interval
           THEN /\ rl_pc' = [rl_pc EXCEPT ![t] = "sleeping"]
                /\ rl_sleep' = [rl_sleep EXCEPT ![t] = sleep_time]
                /\ rl_wake' = [rl_wake EXCEPT ![t] = rl_clock + sleep_time]
           ELSE /\ rl_pc' = [rl_pc EXCEPT ![t] = "stamp"]
                /\ rl_sleep' = [rl_sleep EXCEPT ![t] = 0]
                /\ rl_wake' = [rl_wake EXCEPT ![t] = rl_clock]
    /\ UNCHANGED <<rl_clock, rl_ticks, rl_last, rl_src, rl_now, rl_stamp, rl_calls>>
    /\ UNCHANGED <<dd_vars, sp_vars, tt_vars, gp_vars, s2_vars, cr_vars, rp_vars, pm_vars, kw_vars, mo_vars, au_vars, init_vars>>

\* time.sleep(sleep_time) returns, not before sleep_time has passed
RateLimitWake(t) ==
    /\ rl_pc[t] = "sleeping"
    /\ rl_clock >= rl_wake[t]
    /\ rl_pc' = [rl_pc EXCEPT ![t] = "stamp"]
    /\ UNCHANGED <<rl_clock, rl_ticks, rl_last, rl_src, rl_now, rl_sleep, rl_wake, rl_stamp, rl_calls>>
    /\ UNCHANGED <<dd_vars, sp_vars, tt_vars, gp_vars, s2_vars, cr_vars, rp_vars, pm_vars, kw_vars, mo_vars, au_vars, init_vars>>

\* the time of entry taken for the last request time instead of time.time()
RateLimitStamp_EntryTime(t) ==
    /\ rl_pc[t] = "stamp"
    /\ rl_stamp' = [rl_stamp EXCEPT ![t] = rl_now[t]]
    /\ rl_pc' = [rl_pc EXCEPT ![t] = "store"]
    /\ UNCHANGED <<rl_clock, rl_ticks, rl_last, rl_src, rl_now, rl_sleep, rl_wake, rl_calls>>
    /\ UNCHANGED <<dd_vars, sp_vars, tt_vars, gp_vars, s2_vars, cr_vars, rp_vars, pm_vars, kw_vars, mo_vars, au_vars, init_vars>>

\* line 426, right-hand side: time.time()
RateLimitStamp(t) ==
    /\ rl_pc[t] = "stamp"
    /\ rl_stamp' = [rl_stamp EXCEPT ![t] = rl_clock]
    /\ rl_pc' = [rl_pc EXCEPT ![t] = "store"]
    /\ UNCHANGED <<rl_clock, rl_ticks, rl_last, rl_src, rl_now, rl_sleep, rl_wake, rl_calls>>
    /\ UNCHANGED <<dd_vars, sp_vars, tt_vars, gp_vars, s2_vars, cr_vars, rp_vars, pm_vars, kw_vars, mo_vars, au_vars, init_vars>>

\* line 426, the assignment: self.last_request_time[source] takes the time
\* read, whatever the entry holds by now, and the call returns; returned is the
\* time the call took for its own
RateLimitStore(t) ==
    /\ rl_pc[t] = "store"
    /\ rl_last' = [rl_last EXCEPT ![rl_src[t]] = rl_stamp[t]]
    /\ rl_calls' = Append(rl_calls, [source |-> rl_src[t], thread |-> t, now |-> rl_now[t],
                                     slept |-> rl_sleep[t], returned |-> rl_stamp[t]])
    /\ rl_pc' = [rl_pc EXCEPT ![t] = "idle"]
    /\ UNCHANGED <<rl_clock, rl_ticks, rl_src, rl_now, rl_sleep, rl_wake, rl_stamp>>
    /\ UNCHANGED <<dd_vars, sp_vars, tt_vars, gp_vars, s2_vars, cr_vars, rp_vars, pm_vars, kw_vars, mo_vars, au_vars, init_vars>>

\* time passes: a little, a second, or up to the moment a sleeping thread may
\* wake
Tick ==
    /\ rl_ticks < MaxTicks
    /\ \E d \in {3, 100} \cup {rl_wake[t] - rl_clock :
                                   t \in {u \in Threads : rl_pc[u] = "sleeping" /\ rl_wake[u] > rl_clock}} :
          rl_clock' = rl_clock + d
    /\ rl_ticks' = rl_ticks + 1
    /\ UNCHANGED <<rl_last, rl_pc, rl_src, rl_now, rl_sleep, rl_wake, rl_stamp, rl_calls>>
    /\ UNCHANGED <<dd_vars, sp_vars, tt_vars, gp_vars, s2_vars, cr_vars, rp_vars, pm_vars, kw_vars, mo_vars, au_vars, init_vars>>

SequentialNext ==
    \/ \E s \in DOMAIN min_request_interval : SequentialEnter(s)
    \/ \E t \in Threads : RateLimitRead(t)
    \/ \E t \in Threads : RateLimitWake(t)
    \/ \E t \in Threads : RateLimitStamp(t)
    \/ \E t \in Threads : RateLimitStore(t)
    \/ Tick

ConcurrentNext ==
    \/ \E t \in Threads, s \in DOMAIN min_request_interval : RateLimitEnter(t, s)
    \/ \E t \in Threads : RateLimitRead(t)
    \/ \E t \in Threads : RateLimitWake(t)
    \/ \E t \in Threads : RateLimitStamp(t)
    \/ \E t \in Threads : RateLimitStore(t)
    \/ Tick

SpecRateSequential == RateInit /\ [][SequentialNext]_vars

SpecRateConcurrent == RateInit /\ [][ConcurrentNext]_vars

----------------------------------------------------------------------------
(* UnifiedPaperFetcher._search_semantic_scholar: the retry loop *)

max_retries == 3

\* what safe_get may hand back: None (HTTP error, timeout, undecodable body),
\* an empty dictionary, a dictionary without 'data', a dictionary whose 'data'
\* is null, or a dictionary with a 'data' list of n items
Responses ==
    {[kind |-> k, items |-> 0] : k \in {"none", "empty", "nodata", "datanull"}}
    \cup {[kind |-> "data", items |-> n] : n \in 0..MaxRecords}

\* data and 'data' in data
Usable(response) == response.kind \in {"datanull", "data"}

\* wait_time always 5 seconds
WaitTime_Constant(attempt) == 5

\* wait_time = (attempt + 1) * 5
WaitTime(attempt) == (attempt + 1) * 5

ScholarInit ==
    /\ s2_pc = "request"
    /\ s2_attempt = 0
    /\ s2_log = <<>>
    /\ s2_result = <<>>
    /\ DedupIdle
    /\ SearchIdle
    /\ TrendIdle
    /\ GapsIdle
    /\ RateIdle
    /\ CrossrefIdle
    /\ ReportIdle
    /\ PubmedIdle
    /\ KeywordsIdle
    /\ MonitorIdle
    /\ AuthIdle
    /\ StartupIdle

\* one iteration of the retry loop up to its break, sleep or return, and for
\* a usable response the rest of the function: iterating over a null 'data'
\* raises, which the outer except turns into []
ScholarRequest ==
    /\ s2_pc = "request"
    /\ \E data \in Responses :
          IF Usable(data)
          THEN /\ s2_log' = Append(s2_log, [response |-> data, wait |-> 0])
               /\ s2_result' = IF data.kind = "datanull" THEN <<>>
                                ELSE SubSeq(SemanticScholarFeed, 1, data.items)
               /\ s2_pc' = "done"
          ELSE IF s2_attempt < max_retries - 1
          THEN /\ s2_log' = Append(s2_log, [response |-> data, wait |-> WaitTime(s2_attempt)])
               /\ s2_result' = s2_result
               /\ s2_pc' = "waiting"
          ELSE /\ s2_log' = Append(s2_log, [response |-> data, wait |-> 0])
               /\ s2_result' = <<>>
               /\ s2_pc' = "done"
    /\ UNCHANGED s2_attempt
    /\ UNCHANGED <<dd_vars, sp_vars, tt_vars, gp_vars, rl_vars, cr_vars, rp_vars, pm_vars, kw_vars, mo_vars, au_vars, init_vars>>

\* time.sleep(wait_time) returns and the loop goes to the next attempt
ScholarResume ==
    /\ s2_pc = "waiting"
    /\ s2_attempt' = s2_attempt + 1
    /\ s2_pc' = "request"
    /\ UNCHANGED <<s2_log, s2_result>>
    /\ UNCHANGED <<dd_vars, sp_vars, tt_vars, gp_vars, rl_vars, cr_vars, rp_vars, pm_vars, kw_vars, mo_vars, au_vars, init_vars>>

ScholarNext == ScholarRequest \/ ScholarResume

\* every request is answered or times out, and every sleep ends
SpecScholar == ScholarInit /\ [][ScholarNext]_vars /\ WF_vars(ScholarNext)

----------------------------------------------------------------------------
(* Publication date of a Crossref item: _search_crossref, get_paper_by_doi *)

\* str(n) for n >= 0
RECURSIVE DecimalOf(_)
DecimalOf(n) ==
    IF n < 10 THEN <<Digits[n + 1]>> ELSE Append(DecimalOf(n \div 10), Digits[(n % 10) + 1])

\* f"{n:0Wd}" for n >= 0: the decimal digits, filled with zeros on the left up
\* to the width
RECURSIVE Format(_, _)
Format(n, width) ==
    IF width <= Len(DecimalOf(n)) THEN DecimalOf(n) ELSE <<"0">> \o Format(n, width - 1)

\* published_date and year as the two functions set them: item['published-print']
\* absent or date-parts[0] empty gives '' and None; _search_crossref fills a
\* missing month or day with 01, get_paper_by_doi formats three parts only
CrossrefDate(item, via) ==
    LET date_parts == item.parts
    IN  IF ~item.print \/ date_parts = <<>>
        THEN [published_date |-> <<>>, year |-> [k |-> "none", n |-> 0]]
        ELSE [year |-> [k |-> "int", n |-> date_parts[1]],
              published_date |->
                 IF Len(date_parts) >= 3
                 THEN Format(date_parts[1], 4) \o <<"-">> \o Format(date_parts[2], 2)
                      \o <<"-">> \o Format(date_parts[3], 2)
                 ELSE IF via = "lookup" THEN <<>>
                 ELSE IF Len(date_parts) >= 2
                 THEN Format(date_parts[1], 4) \o <<"-">> \o Format(date_parts[2], 2)
                      \o <<"-", "0", "1">>
                 ELSE Format(date_parts[1], 4) \o <<"-", "0", "1", "-", "0", "1">>]

CrossrefInit ==
    /\ cr_item \in [print : BOOLEAN, parts : ListsUpTo({1, 6, 12, 31, 987, 2021}, MaxDateParts)]
    /\ cr_via \in {"search", "lookup"}
    /\ cr_pc = "parse"
    /\ cr_paper = <<>>
    /\ DedupIdle
    /\ SearchIdle
    /\ TrendIdle
    /\ GapsIdle
    /\ RateIdle
    /\ ScholarIdle
    /\ ReportIdle
    /\ PubmedIdle
    /\ KeywordsIdle
    /\ MonitorIdle
    /\ AuthIdle
    /\ StartupIdle

\* the paper is built from the item
CrossrefParse ==
    /\ cr_pc = "parse"
    /\ cr_paper' = CrossrefDate(cr_item, cr_via)
    /\ cr_pc' = "done"
    /\ UNCHANGED <<cr_item, cr_via>>
    /\ UNCHANGED <<dd_vars, sp_vars, tt_vars, gp_vars, rl_vars, s2_vars, rp_vars, pm_vars, kw_vars, mo_vars, au_vars, init_vars>>

SpecCrossref == CrossrefInit /\ [][CrossrefParse]_vars

----------------------------------------------------------------------------
(* AdvancedTrendMonitor.generate_trend_report and the analyses it runs *)

\* not year, for the value of paper.get('year')
FalsyYear(year) ==
    \/ year.k \in {"missing", "none"}
    \/ (year.k = "int" /\ year.n = 0)
    \/ (year.k = "str" /\ year.s = <<>>)

\* the loop of _analyze_keyword_trends over papers: keyword_by_year as a function
\* from the year values seen (integers and strings as they come) to the counts
\* of the first 10 keywords of their papers
RECURSIVE KeywordByYearFrom(_, _, _)
KeywordByYearFrom(papers, i, keyword_by_year) ==
    IF i > Len(papers) THEN keyword_by_year
    ELSE LET year == papers[i].year
             keywords == extract_keywords(FormatValue(papers[i].title) \o <<" ">>
                                          \o FormatValue(papers[i].abstract))
             top == Range(SubSeq(keywords, 1, Min(10, Len(keywords))))
             old == IF year \in DOMAIN keyword_by_year THEN keyword_by_year[year] ELSE <<>>
         IN  IF FalsyYear(year) \/ top = {} THEN KeywordByYearFrom(papers, i + 1, keyword_by_year)
             ELSE KeywordByYearFrom(papers, i + 1,
                     [y \in DOMAIN keyword_by_year \cup {year} |->
                         IF y = year
                         THEN [w \in DOMAIN old \cup top |->
                                 (IF w \in DOMAIN old THEN old[w] ELSE 0) + (IF w \in top THEN 1 ELSE 0)]
                         ELSE keyword_by_year[y]])

\* a < b for two year values of one type
YearLess(a, b) == IF a.k = "int" THEN a.n < b.n ELSE StrLess(a.s, b.s)

\* the dictionary _analyze_keyword_trends returns. sorted(keyword_by_year.keys())
\* is run once per keyword and raises TypeError when integer and string years
\* are mixed; reading the counts of the last two years enters every keyword in
\* their tables. trending_keywords is given as a set (fewer than 10 entries).
KeywordTrends(papers) ==
    LET keyword_by_year == KeywordByYearFrom(papers, 1, <<>>)
        years == DOMAIN keyword_by_year
        all == UNION {DOMAIN keyword_by_year[y] : y \in years}
        last == CHOOSE y \in years : \A z \in years \ {y} : YearLess(z, y)
        before == CHOOSE y \in years \ {last} : \A z \in years \ {y, last} : YearLess(z, y)
        count(y, w) == IF w \in DOMAIN keyword_by_year[y] THEN keyword_by_year[y][w] ELSE 0
    IN  IF \E y, z \in years : y.k # z.k
        THEN [error |-> TRUE, keyword_evolution |-> <<>>, trending_keywords |-> {}]
        ELSE IF Cardinality(years) < 2
        THEN [error |-> FALSE, keyword_evolution |-> keyword_by_year, trending_keywords |-> {}]
        ELSE [error |-> FALSE,
              keyword_evolution |->
                  [y \in years |-> IF y \in {last, before} THEN [w \in all |-> count(y, w)]
                                   ELSE keyword_by_year[y]],
              trending_keywords |->
                  {[keyword |-> w, recent_count |-> count(last, w), previous_count |-> count(before, w)] :
                      w \in {v \in all : count(before, v) > 0}}]

\* datetime.now().year
current_year == 2021

\* the first 5 keywords of each paper of a list, as a set
TopicsOf(papers) ==
    UNION {LET topics == extract_keywords(FormatValue(papers[i].title) \o <<" ">>
                                          \o FormatValue(papers[i].abstract))
           IN  Range(SubSeq(topics, 1, Min(5, Len(topics)))) : i \in DOMAIN papers}

\* the papers _detect_emerging_topics puts in recent_papers (recent = TRUE) or in
\* older_papers: a year that is falsy or a string int() rejects is skipped
PapersByAge(papers, recent) ==
    LET YearOf(paper) == IF paper.year.k = "str" THEN IntOfStr(paper.year.s)
                         ELSE [ok |-> TRUE, n |-> paper.year.n]
        Kept(paper) == /\ ~FalsyYear(paper.year)
                       /\ YearOf(paper).ok
                       /\ (YearOf(paper).n >= current_year - 2) = recent
    IN  SelectSeq(papers, Kept)

\* the dictionary _detect_emerging_topics returns; emerging_topics is given as
\* a set (fewer than 15 entries)
EmergingTopics(papers) ==
    [error |-> FALSE,
     emerging_topics |-> TopicsOf(PapersByAge(papers, TRUE)) \ TopicsOf(PapersByAge(papers, FALSE)),
     recent_papers_count |-> Len(PapersByAge(papers, TRUE)),
     older_papers_count |-> Len(PapersByAge(papers, FALSE))]

\* _generate_executive_summary: a string in every case
ExecutiveSummary(groq) ==
    IF groq = "none" THEN "Executive summary not available"
    ELSE IF groq = "raises" THEN "Executive summary generation failed"
    ELSE "response"

\* what each analysis returns from its except clause
AnalysisError == [error |-> TRUE]

ReportSections == {"executive_summary", "temporal_trends", "research_gaps", "keyword_analysis",
                   "emerging_topics", "report_metadata"}

\* an entry of the list that is not a dictionary (None): paper.get raises
\* AttributeError in each analysis
NotADict == [dict |-> FALSE, year |-> YearMissing, title |-> Missing, abstract |-> Missing]

\* generate_trend_report with an analysis whose exception is not caught
TrendReport_Uncaught(papers, groq) ==
    IF papers = <<>> THEN [keys |-> {"error"}]
    ELSE LET broken == \E i \in DOMAIN papers : ~papers[i].dict
             dicts == [i \in DOMAIN papers |->
                          [year |-> papers[i].year, title |-> papers[i].title,
                           abstract |-> papers[i].abstract]]
             texts == [i \in DOMAIN papers |->
                          [title |-> papers[i].title, abstract |-> papers[i].abstract]]
         IN  IF broken \/ TemporalTrends(dicts).error \/ KeywordTrends(dicts).error
             THEN [keys |-> {"error", "analysis_timestamp"}]
             ELSE [keys |-> ReportSections,
                   executive_summary |-> ExecutiveSummary(groq),
                   temporal_trends |-> TemporalTrends(dicts),
                   research_gaps |-> ResearchGaps(texts, groq),
                   keyword_analysis |-> KeywordTrends(dicts),
                   emerging_topics |-> EmergingTopics(dicts),
                   papers_analyzed |-> Len(papers)]

\* the dictionary generate_trend_report returns: keys are its top-level keys
TrendReport(papers, groq) ==
    IF papers = <<>> THEN [keys |-> {"error"}]
    ELSE LET broken == \E i \in DOMAIN papers : ~papers[i].dict
             dicts == [i \in DOMAIN papers |->
                          [year |-> papers[i].year, title |-> papers[i].title,
                           abstract |-> papers[i].abstract]]
             texts == [i \in DOMAIN papers |->
                          [title |-> papers[i].title, abstract |-> papers[i].abstract]]
         IN  [keys |-> ReportSections,
              executive_summary |-> ExecutiveSummary(groq),
              temporal_trends |-> IF broken THEN TemporalTrends(<<>>) ELSE TemporalTrends(dicts),
              research_gaps |-> IF broken THEN GapError ELSE ResearchGaps(texts, groq),
              keyword_analysis |-> IF broken THEN AnalysisError ELSE KeywordTrends(dicts),
              emerging_topics |-> IF broken THEN AnalysisError ELSE EmergingTopics(dicts),
              papers_analyzed |-> Len(papers)]

\* papers with the shorter texts of GapPool under several year values, and an
\* entry that is not a dictionary
ReportPool ==
    {NotADict} \cup
    {[dict |-> TRUE, year |-> year, title |-> text.title, abstract |-> text.abstract] :
        year \in {YearMissing, YearInt(2018), YearInt(2021), YearStr(<<"2", "0", "2", "1">>),
                  YearStr(<<"n", "/", "a">>)},
        text \in {paper \in GapPool : paper.abstract.k # "missing" /\ Len(paper.abstract.s) <= 11}}

ReportInit ==
    /\ rp_papers \in ListsUpTo(ReportPool, MaxReportPapers)
    /\ rp_groq \in {"none", "answers", "raises"}
    /\ rp_pc = "call"
    /\ rp_report = <<>>
    /\ DedupIdle
    /\ SearchIdle
    /\ TrendIdle
    /\ GapsIdle
    /\ RateIdle
    /\ ScholarIdle
    /\ CrossrefIdle
    /\ PubmedIdle
    /\ KeywordsIdle
    /\ MonitorIdle
    /\ AuthIdle
    /\ StartupIdle

\* generate_trend_report(papers)
GenerateTrendReport ==
    /\ rp_pc = "call"
    /\ rp_report' = TrendReport(rp_papers, rp_groq)
    /\ rp_pc' = "done"
    /\ UNCHANGED <<rp_papers, rp_groq>>
    /\ UNCHANGED <<dd_vars, sp_vars, tt_vars, gp_vars, rl_vars, s2_vars, cr_vars, pm_vars, kw_vars, mo_vars, au_vars, init_vars>>

SpecReport == ReportInit /\ [][GenerateTrendReport]_vars

----------------------------------------------------------------------------
(* UnifiedPaperFetcher._search_pubmed: the two requests *)

\* what the esearch request gives: an exception (HTTP error, timeout, a body
\* that is not JSON), a JSON body without esearchresult / idlist, or an idlist
\* of as many PMIDs as NCBI chooses to send
EsearchResponses ==
    {[kind |-> "raises", idlist |-> <<>>], [kind |-> "no_idlist", idlist |-> <<>>]}
    \cup {[kind |-> "idlist", idlist |-> [n \in 1..k |-> n]] : k \in 0..MaxRecords}

\* a PubmedArticle element: complete, without MedlineCitation, without Article,
\* or with a Year that int() rejects
ArticleKinds == {"complete", "no_medline", "no_article", "bad_year"}

\* what the efetch request gives: an exception (HTTP error, timeout, XML that
\* does not parse) or a document with some PubmedArticle elements
EfetchResponses ==
    {[kind |-> "raises", articles |-> <<>>]}
    \cup {[kind |-> "xml", articles |-> l] : l \in ListsUpTo(ArticleKinds, MaxRecords)}

\* if not pmids: return [] is passed (negated, with the test dropped)
HasPmids_Unchecked(pmids) == TRUE

\* if not pmids: return [] is passed
HasPmids(pmids) == pmids # <<>>

PubmedInit ==
    /\ pm_max \in 0..MaxResults
    /\ pm_pc = "start"
    /\ pm_log = <<>>
    /\ pm_ids = <<>>
    /\ pm_result = <<>>
    /\ DedupIdle
    /\ SearchIdle
    /\ TrendIdle
    /\ GapsIdle
    /\ RateIdle
    /\ ScholarIdle
    /\ CrossrefIdle
    /\ ReportIdle
    /\ KeywordsIdle
    /\ MonitorIdle
    /\ AuthIdle
    /\ StartupIdle

\* self._rate_limit('pubmed'), before either request
PubmedRateLimit ==
    /\ pm_pc \in {"start", "fetch"}
    /\ pm_log' = Append(pm_log, [call |-> "_rate_limit", source |-> "pubmed"])
    /\ pm_pc' = IF pm_pc = "start" THEN "esearch" ELSE "efetch"
    /\ UNCHANGED <<pm_max, pm_ids, pm_result>>
    /\ UNCHANGED <<dd_vars, sp_vars, tt_vars, gp_vars, rl_vars, s2_vars, cr_vars, rp_vars, kw_vars, mo_vars, au_vars, init_vars>>

\* step 1: the esearch request with retmax = min(max_results, 20), and the test
\* of the idlist
PubmedEsearch ==
    /\ pm_pc = "esearch"
    /\ \E response \in EsearchResponses :
          /\ pm_log' = Append(pm_log, [call |-> "esearch", retmax |-> Min(pm_max, 20),
                                       response |-> response])
          /\ IF response.kind = "idlist" /\ HasPmids(response.idlist)
             THEN pm_pc' = "fetch" /\ pm_ids' = response.idlist
             ELSE pm_pc' = "done" /\ pm_ids' = <<>>
    /\ pm_result' = <<>>
    /\ UNCHANGED pm_max
    /\ UNCHANGED <<dd_vars, sp_vars, tt_vars, gp_vars, rl_vars, s2_vars, cr_vars, rp_vars, kw_vars, mo_vars, au_vars, init_vars>>

\* step 2: the efetch request for the PMIDs and the loop over the PubmedArticle
\* elements, which skips an element that cannot be parsed
PubmedEfetch ==
    /\ pm_pc = "efetch"
    /\ \E response \in EfetchResponses :
          /\ pm_log' = Append(pm_log, [call |-> "efetch", id |-> pm_ids, response |-> response])
          /\ pm_result' = IF response.kind = "raises" THEN <<>>
                          ELSE SelectSeq(response.articles, LAMBDA article : article = "complete")
    /\ pm_pc' = "done"
    /\ UNCHANGED <<pm_max, pm_ids>>
    /\ UNCHANGED <<dd_vars, sp_vars, tt_vars, gp_vars, rl_vars, s2_vars, cr_vars, rp_vars, kw_vars, mo_vars, au_vars, init_vars>>

PubmedNext == PubmedRateLimit \/ PubmedEsearch \/ PubmedEfetch

SpecPubmed == PubmedInit /\ [][PubmedNext]_vars

----------------------------------------------------------------------------
(* Contents handed to _extract_keywords *)

\* " ".join(words)
RECURSIVE Sentence(_)
Sentence(words) ==
    IF words = <<>> THEN <<>>
    ELSE IF Len(words) = 1 THEN Head(words)
    ELSE Head(words) \o <<" ">> \o Sentence(Tail(words))

\* terma, termb, ... : n different keywords
NumberedTerms(n) == [k \in 1..n |-> <<"t", "e", "r", "m", LowerLetters[k]>>]

\* a keyword, the same capitalised and followed by punctuation, a stop word of
\* three letters and one of five, a short word, letters next to a digit, and the
\* first numbered term
TailWords ==
    {<<"z", "e", "t", "a">>, <<"Z", "e", "t", "a", "!">>, <<"t", "h", "e">>, <<"m", "o", "d", "e", "l">>,
     <<"c", "a", "t">>, <<"d", "a", "t", "a", "1">>, <<"t", "e", "r", "m", "a">>}

\* contents with no, 19, 20 or 21 numbered terms followed by a few other words
KeywordContents ==
    {Sentence(NumberedTerms(n) \o tail) :
        n \in {0, 19, 20, 21}, tail \in ListsUpTo(TailWords, MaxTailWords)}

KeywordsInit ==
    /\ kw_content \in KeywordContents
    /\ kw_pc = "call"
    /\ kw_keywords = <<>>
    /\ DedupIdle
    /\ SearchIdle
    /\ TrendIdle
    /\ GapsIdle
    /\ RateIdle
    /\ ScholarIdle
    /\ CrossrefIdle
    /\ ReportIdle
    /\ PubmedIdle
    /\ MonitorIdle
    /\ AuthIdle
    /\ StartupIdle

\* self._extract_keywords(content)
ExtractKeywords ==
    /\ kw_pc = "call"
    /\ kw_keywords' = extract_keywords(kw_content)
    /\ kw_pc' = "done"
    /\ UNCHANGED kw_content
    /\ UNCHANGED <<dd_vars, sp_vars, tt_vars, gp_vars, rl_vars, s2_vars, cr_vars, rp_vars, pm_vars, mo_vars, au_vars, init_vars>>

SpecKeywords == KeywordsInit /\ [][ExtractKeywords]_vars

----------------------------------------------------------------------------
(* Two calls on one AdvancedTrendMonitor, interleaved paper by paper *)

\* the fields after __init__
MonitorFields ==
    [trend_data |-> <<>>, keyword_trends |-> <<>>, temporal_data |-> <<>>,
     gap_analysis_cache |-> <<>>]

MonitorCallers == {1, 2}

MonitorMethods == {"analyze_temporal_trends", "detect_research_gaps"}

MonitorPool ==
    {[year |-> year, title |-> text.title, abstract |-> text.abstract] :
        year \in {YearMissing, YearInt(2020), YearInt(2021)}, text \in MonitorTexts}

\* the locals of a call that has not started
NoCall == [method |-> "none", pc |-> "idle", i |-> 1, seen |-> <<>>, result |-> <<>>]

\* whether the iteration of the method's loop for this paper raises
LoopRaises(method, paper) ==
    IF method = "analyze_temporal_trends"
    THEN ValidYear(paper).ok /\ TrendContent(paper).raises
    ELSE MatchTable[[title |-> paper.title, abstract |-> paper.abstract]].raises

\* what the method returns for the papers its loop has read; for
\* analyze_temporal_trends the counts, the growth analysis and keyword_evolution
\* (the topic lists are built from keyword_evolution)
MonitorResult(method, papers, groq) ==
    IF method = "analyze_temporal_trends"
    THEN LET trends == TemporalTrends(papers)
         IN  [trends |-> trends,
              keyword_evolution |-> IF trends.error THEN <<>>
                                    ELSE KeywordEvolution(papers, DOMAIN trends.publication_trend)]
    ELSE ResearchGaps([i \in DOMAIN papers |->
                          [title |-> papers[i].title, abstract |-> papers[i].abstract]], groq)

MonitorInit ==
    /\ mo_fields = MonitorFields
    /\ mo_groq \in {"none", "answers", "raises"}
    /\ mo_papers \in ListsUpTo(MonitorPool, MaxMonitorPapers)
    /\ mo_given = mo_papers
    /\ mo_call = [t \in MonitorCallers |-> NoCall]
    /\ DedupIdle
    /\ SearchIdle
    /\ TrendIdle
    /\ GapsIdle
    /\ RateIdle
    /\ ScholarIdle
    /\ CrossrefIdle
    /\ ReportIdle
    /\ PubmedIdle
    /\ KeywordsIdle
    /\ AuthIdle
    /\ StartupIdle

\* a caller enters analyze_temporal_trends(papers) or detect_research_gaps(papers):
\* the counters are new local dictionaries of the call
MonitorCall(t) ==
    /\ mo_call[t].pc = "idle"
    /\ \E method \in MonitorMethods :
          mo_call' = [mo_call EXCEPT ![t] = [NoCall EXCEPT !.method = method, !.pc = "loop"]]
    /\ UNCHANGED <<mo_fields, mo_groq, mo_papers, mo_given>>
    /\ UNCHANGED <<dd_vars, sp_vars, tt_vars, gp_vars, rl_vars, s2_vars, cr_vars, rp_vars, pm_vars, kw_vars, au_vars, init_vars>>

\* whether the loop of call t has ended: no paper left, or the last one raised
LoopEnded(t) ==
    \/ mo_call[t].i > Len(mo_papers)
    \/ /\ mo_call[t].seen # <<>>
       /\ LoopRaises(mo_call[t].method, mo_call[t].seen[Len(mo_call[t].seen)])

\* MonitorRead that keeps what it reads in self.temporal_data
MonitorRead_OnSelf(t) ==
    /\ mo_call[t].pc = "loop"
    /\ ~LoopEnded(t)
    /\ mo_fields' = [mo_fields EXCEPT !.temporal_data = Append(@, mo_papers[mo_call[t].i])]
    /\ mo_call' = [mo_call EXCEPT ![t].i = @ + 1, ![t].seen = mo_fields'.temporal_data]
    /\ UNCHANGED <<mo_groq, mo_papers, mo_given>>
    /\ UNCHANGED <<dd_vars, sp_vars, tt_vars, gp_vars, rl_vars, s2_vars, cr_vars, rp_vars, pm_vars, kw_vars, au_vars, init_vars>>

\* one iteration of `for paper in papers`: the paper is read with paper.get and
\* counted in the local dictionaries of the call
MonitorRead(t) ==
    /\ mo_call[t].pc = "loop"
    /\ ~LoopEnded(t)
    /\ mo_call' = [mo_call EXCEPT ![t].i = @ + 1,
                                  ![t].seen = Append(@, mo_papers[mo_call[t].i])]
    /\ UNCHANGED <<mo_fields, mo_groq, mo_papers, mo_given>>
    /\ UNCHANGED <<dd_vars, sp_vars, tt_vars, gp_vars, rl_vars, s2_vars, cr_vars, rp_vars, pm_vars, kw_vars, au_vars, init_vars>>

\* after the loop (or in the except clause) the call builds its result from
\* its local dictionaries and returns it
MonitorReturn(t) ==
    /\ mo_call[t].pc = "loop"
    /\ LoopEnded(t)
    /\ mo_call' = [mo_call EXCEPT ![t].pc = "done",
                                  ![t].result = MonitorResult(mo_call[t].method, mo_call[t].seen, mo_groq)]
    /\ UNCHANGED <<mo_fields, mo_groq, mo_papers, mo_given>>
    /\ UNCHANGED <<dd_vars, sp_vars, tt_vars, gp_vars, rl_vars, s2_vars, cr_vars, rp_vars, pm_vars, kw_vars, au_vars, init_vars>>

MonitorNext == \E t \in MonitorCallers : MonitorCall(t) \/ MonitorRead(t) \/ MonitorReturn(t)

SpecMonitor == MonitorInit /\ [][MonitorNext]_vars

----------------------------------------------------------------------------
(* AuthManager: tokens and active sessions (components/auth.py) *)

\* datetime.now() has fractions of a second and the 'exp' claim of a token has
\* none: a second is two ticks of the model's time
TicksPerSecond == 2

\* timedelta(hours=8)
EightHours == 8 * 3600 * TicksPerSecond

UserIds == {"user_1", "user_2"}

\* the local wall clock runs on UTC in winter and one hour ahead of it under
\* daylight saving time
UtcOffsets == {0, 3600 * TicksPerSecond}

\* datetime.utcnow(), and the time PyJWT compares exp with
datetime_utcnow == au_clock

\* datetime.now(): the local wall clock, without zone
datetime_now == au_clock + au_offset

\* how far the time advances between two calls
ClockJumps == {1, EightHours - 1, EightHours}

\* jwt.encode({'user_id': ..., 'username': ..., 'exp': utcnow() + 8 hours}): the
\* token is determined by its payload, and exp is kept in whole seconds
Encode(user_id, now) ==
    [user_id |-> user_id, exp |-> (now \div TicksPerSecond) * TicksPerSecond + EightHours]

\* jwt.decode(token) returns the payload; FALSE when it raises
\* ExpiredSignatureError, which it does once exp <= now
Decode(token, now) == now < token.exp

\* sessions[user_id] = {'token', 'created_at', 'last_activity'}
add_active_session(sessions, user_id, token, now) ==
    [u \in DOMAIN sessions \cup {user_id} |->
        IF u = user_id THEN [token |-> token, created_at |-> now, last_activity |-> now]
        ELSE sessions[u]]

\* del sessions[user_id] if it is there
remove_active_session(sessions, user_id) ==
    [u \in DOMAIN sessions \ {user_id} |-> sessions[u]]

\* datetime.now() - created_at > timedelta(hours=8), both read off the local
\* wall clock
Expired(session, now) == now - session.created_at > EightHours

\* is_session_active without the comparison of the token
is_session_active_AnyToken(sessions, user_id, token, now) ==
    IF user_id \notin DOMAIN sessions THEN [active |-> FALSE, sessions |-> sessions]
    ELSE IF Expired(sessions[user_id], now)
    THEN [active |-> FALSE, sessions |-> remove_active_session(sessions, user_id)]
    ELSE [active |-> TRUE, sessions |-> sessions]

\* is_session_active(user_id, token): its answer and the sessions it leaves
is_session_active(sessions, user_id, token, now) ==
    IF user_id \notin DOMAIN sessions THEN [active |-> FALSE, sessions |-> sessions]
    ELSE IF sessions[user_id].token # token THEN [active |-> FALSE, sessions |-> sessions]
    ELSE IF Expired(sessions[user_id], now)
    THEN [active |-> FALSE, sessions |-> remove_active_session(sessions, user_id)]
    ELSE [active |-> TRUE, sessions |-> sessions]

\* update_session_activity(user_id)
update_session_activity(sessions, user_id, now) ==
    IF user_id \in DOMAIN sessions
    THEN [sessions EXCEPT ![user_id].last_activity = now]
    ELSE sessions

\* verify_token(token): accepted = a payload is returned, and the sessions it
\* leaves; the token is decoded at the time utcnow, the session is looked at
\* and updated at the local time now
verify_token(sessions, token, utcnow, now) ==
    IF ~Decode(token, utcnow) THEN [accepted |-> FALSE, sessions |-> sessions]
    ELSE LET checked == is_session_active(sessions, token.user_id, token, now)
         IN  IF ~checked.active THEN [accepted |-> FALSE, sessions |-> checked.sessions]
             ELSE [accepted |-> TRUE,
                   sessions |-> update_session_activity(checked.sessions, token.user_id, now)]

NeverLoggedIn == [login |-> FALSE, token |-> <<>>, at |-> 0, out |-> FALSE]

AuthInit ==
    /\ au_clock = 0
    /\ au_offset = 0
    /\ au_jumps = 0
    /\ au_sessions = <<>>
    /\ au_issued = {}
    /\ au_latest = [u \in UserIds |-> NeverLoggedIn]
    /\ au_verdict = [called |-> FALSE]
    /\ DedupIdle
    /\ SearchIdle
    /\ TrendIdle
    /\ GapsIdle
    /\ RateIdle
    /\ ScholarIdle
    /\ CrossrefIdle
    /\ ReportIdle
    /\ PubmedIdle
    /\ KeywordsIdle
    /\ MonitorIdle
    /\ StartupIdle

\* authenticate_user(username, password): with a wrong password or a disabled
\* account nothing changes; otherwise a token is issued and its session stored
AuthenticateUser(user_id) ==
    /\ \E success \in BOOLEAN :
          IF success
          THEN LET token == Encode(user_id, datetime_utcnow)
               IN  /\ au_sessions' = add_active_session(au_sessions, user_id, token, datetime_now)
                   /\ au_issued' = au_issued \cup {token}
                   /\ au_latest' = [au_latest EXCEPT ![user_id] =
                                       [login |-> TRUE, token |-> token, at |-> au_clock, out |-> FALSE]]
          ELSE /\ au_latest[user_id].login
               /\ UNCHANGED <<au_sessions, au_issued, au_latest>>
    /\ UNCHANGED <<au_clock, au_offset, au_jumps, au_verdict>>
    /\ UNCHANGED <<dd_vars, sp_vars, tt_vars, gp_vars, rl_vars, s2_vars, cr_vars, rp_vars, pm_vars, kw_vars, mo_vars, init_vars>>

\* logout_user(user_id)
LogoutUser(user_id) ==
    /\ au_latest[user_id].login
    /\ au_sessions' = remove_active_session(au_sessions, user_id)
    /\ au_latest' = [au_latest EXCEPT ![user_id].out = TRUE]
    /\ UNCHANGED <<au_clock, au_offset, au_jumps, au_issued, au_verdict>>
    /\ UNCHANGED <<dd_vars, sp_vars, tt_vars, gp_vars, rl_vars, s2_vars, cr_vars, rp_vars, pm_vars, kw_vars, mo_vars, init_vars>>

\* verify_token(token) for a token issued earlier
VerifyToken(token) ==
    /\ token \in au_issued
    /\ LET verified == verify_token(au_sessions, token, datetime_utcnow, datetime_now)
       IN  /\ au_sessions' = verified.sessions
           /\ au_verdict' = [called |-> TRUE, token |-> token, accepted |-> verified.accepted,
                             at |-> au_clock, latest |-> au_latest[token.user_id]]
    /\ UNCHANGED <<au_clock, au_offset, au_jumps, au_issued, au_latest>>
    /\ UNCHANGED <<dd_vars, sp_vars, tt_vars, gp_vars, rl_vars, s2_vars, cr_vars, rp_vars, pm_vars, kw_vars, mo_vars, init_vars>>

\* cleanup_expired_sessions()
CleanupExpiredSessions ==
    /\ au_sessions # <<>>
    /\ LET current_time == datetime_now
           expired_sessions == {u \in DOMAIN au_sessions : Expired(au_sessions[u], current_time)}
       IN  au_sessions' = [u \in DOMAIN au_sessions \ expired_sessions |-> au_sessions[u]]
    /\ UNCHANGED <<au_clock, au_offset, au_jumps, au_issued, au_latest, au_verdict>>
    /\ UNCHANGED <<dd_vars, sp_vars, tt_vars, gp_vars, rl_vars, s2_vars, cr_vars, rp_vars, pm_vars, kw_vars, mo_vars, init_vars>>

\* time passes between two calls, during which daylight saving time may begin
\* or end
AuthTick ==
    /\ au_jumps < MaxJumps
    /\ \E d \in ClockJumps : au_clock' = au_clock + d
    /\ au_offset' \in UtcOffsets
    /\ au_jumps' = au_jumps + 1
    /\ UNCHANGED <<au_sessions, au_issued, au_latest, au_verdict>>
    /\ UNCHANGED <<dd_vars, sp_vars, tt_vars, gp_vars, rl_vars, s2_vars, cr_vars, rp_vars, pm_vars, kw_vars, mo_vars, init_vars>>

AuthNext ==
    \/ \E user_id \in UserIds : AuthenticateUser(user_id) \/ LogoutUser(user_id)
    \/ \E token \in au_issued : VerifyToken(token)
    \/ CleanupExpiredSessions
    \/ AuthTick

SpecAuth == AuthInit /\ [][AuthNext]_vars

----------------------------------------------------------------------------
(* main.py: initialize_research_mate and the tasks that start it *)

\* the four globals
Globals ==
    [research_mate |-> research_mate, citation_analyzer |-> citation_analyzer,
     research_mate_initialized |-> research_mate_initialized,
     initialization_in_progress |-> initialization_in_progress]

\* asyncio.create_task(initialize_research_mate()): the task exists and has not
\* run yet
NewRun == [pc |-> "created", left |-> <<>>]

\* a run between `initialization_in_progress = True` and the finally clause
PastGuard(run) == run.pc \in {"citation_analyzer", "research_mate"}

StartupInit ==
    /\ research_mate = 0
    /\ citation_analyzer = 0
    /\ research_mate_initialized = FALSE
    /\ initialization_in_progress = FALSE
    /\ init_runs = <<>>
    /\ init_lifespan = "start"
    /\ init_startup = "sleep"
    /\ init_requests = 0
    /\ DedupIdle
    /\ SearchIdle
    /\ TrendIdle
    /\ GapsIdle
    /\ RateIdle
    /\ ScholarIdle
    /\ CrossrefIdle
    /\ ReportIdle
    /\ PubmedIdle
    /\ KeywordsIdle
    /\ MonitorIdle
    /\ AuthIdle

\* lifespan up to its yield: the task is created without a test
Lifespan ==
    /\ init_lifespan = "start"
    /\ init_lifespan' = "yield"
    /\ init_runs' = Append(init_runs, NewRun)
    /\ UNCHANGED <<research_mate, citation_analyzer, research_mate_initialized,
                   initialization_in_progress, init_startup, init_requests>>
    /\ UNCHANGED <<dd_vars, sp_vars, tt_vars, gp_vars, rl_vars, s2_vars, cr_vars, rp_vars, pm_vars,
                   kw_vars, mo_vars, au_vars>>

\* startup_event after its sleep
StartupEvent ==
    /\ init_startup = "sleep"
    /\ init_startup' = "done"
    /\ init_runs' = IF ~initialization_in_progress /\ ~research_mate_initialized
                     THEN Append(init_runs, NewRun) ELSE init_runs
    /\ UNCHANGED <<research_mate, citation_analyzer, research_mate_initialized,
                   initialization_in_progress, init_lifespan, init_requests>>
    /\ UNCHANGED <<dd_vars, sp_vars, tt_vars, gp_vars, rl_vars, s2_vars, cr_vars, rp_vars, pm_vars,
                   kw_vars, mo_vars, au_vars>>

\* POST /api/trigger-init
TriggerInitialization ==
    /\ init_lifespan = "yield"
    /\ init_requests < MaxRequests
    /\ init_requests' = init_requests + 1
    /\ init_runs' = IF ~initialization_in_progress /\ ~research_mate_initialized
                     THEN Append(init_runs, NewRun) ELSE init_runs
    /\ UNCHANGED <<research_mate, citation_analyzer, research_mate_initialized,
                   initialization_in_progress, init_lifespan, init_startup>>
    /\ UNCHANGED <<dd_vars, sp_vars, tt_vars, gp_vars, rl_vars, s2_vars, cr_vars, rp_vars, pm_vars,
                   kw_vars, mo_vars, au_vars>>

\* RunStart without `if initialization_in_progress: return`
RunStart_Unguarded(r) ==
    /\ init_runs[r].pc = "created"
    /\ initialization_in_progress' = TRUE
    /\ init_runs' = [init_runs EXCEPT ![r].pc = "citation_analyzer"]
    /\ UNCHANGED <<research_mate, citation_analyzer, research_mate_initialized,
                   init_lifespan, init_startup, init_requests>>
    /\ UNCHANGED <<dd_vars, sp_vars, tt_vars, gp_vars, rl_vars, s2_vars, cr_vars, rp_vars, pm_vars,
                   kw_vars, mo_vars, au_vars>>

\* initialize_research_mate up to its first await: the guard, the flag, and
\* CitationNetworkAnalyzer handed to the executor
RunStart(r) ==
    /\ init_runs[r].pc = "created"
    /\ IF initialization_in_progress
       THEN /\ init_runs' = [init_runs EXCEPT ![r].pc = "returned"]
            /\ UNCHANGED initialization_in_progress
       ELSE /\ initialization_in_progress' = TRUE
            /\ init_runs' = [init_runs EXCEPT ![r].pc = "citation_analyzer"]
    /\ UNCHANGED <<research_mate, citation_analyzer, research_mate_initialized,
                   init_lifespan, init_startup, init_requests>>
    /\ UNCHANGED <<dd_vars, sp_vars, tt_vars, gp_vars, rl_vars, s2_vars, cr_vars, rp_vars, pm_vars,
                   kw_vars, mo_vars, au_vars>>

\* the except and finally clauses: the globals are reset and the flag cleared
RunFails(r) ==
    /\ PastGuard(init_runs[r])
    /\ research_mate' = 0
    /\ citation_analyzer' = 0
    /\ research_mate_initialized' = FALSE
    /\ initialization_in_progress' = FALSE
    /\ init_runs' = [init_runs EXCEPT ![r] = [pc |-> "failed", left |-> Globals']]
    /\ UNCHANGED <<init_lifespan, init_startup, init_requests>>
    /\ UNCHANGED <<dd_vars, sp_vars, tt_vars, gp_vars, rl_vars, s2_vars, cr_vars, rp_vars, pm_vars,
                   kw_vars, mo_vars, au_vars>>

\* the first await returns: citation_analyzer is assigned and ResearchMate is
\* handed to the executor
RunCitationAnalyzer(r) ==
    /\ init_runs[r].pc = "citation_analyzer"
    /\ citation_analyzer' = r
    /\ init_runs' = [init_runs EXCEPT ![r].pc = "research_mate"]
    /\ UNCHANGED <<research_mate, research_mate_initialized, initialization_in_progress,
                   init_lifespan, init_startup, init_requests>>
    /\ UNCHANGED <<dd_vars, sp_vars, tt_vars, gp_vars, rl_vars, s2_vars, cr_vars, rp_vars, pm_vars,
                   kw_vars, mo_vars, au_vars>>

\* the second await returns: research_mate is assigned, the flag set, and the
\* finally clause runs
RunResearchMate(r) ==
    /\ init_runs[r].pc = "research_mate"
    /\ research_mate' = r
    /\ research_mate_initialized' = TRUE
    /\ initialization_in_progress' = FALSE
    /\ UNCHANGED <<citation_analyzer, init_lifespan, init_startup, init_requests>>
    /\ init_runs' = [init_runs EXCEPT ![r] = [pc |-> "initialized", left |-> Globals']]
    /\ UNCHANGED <<dd_vars, sp_vars, tt_vars, gp_vars, rl_vars, s2_vars, cr_vars, rp_vars, pm_vars,
                   kw_vars, mo_vars, au_vars>>

StartupNext ==
    \/ Lifespan
    \/ StartupEvent
    \/ TriggerInitialization
    \/ \E r \in DOMAIN init_runs :
          RunStart(r) \/ RunCitationAnalyzer(r) \/ RunResearchMate(r) \/ RunFails(r)

SpecStartup == StartupInit /\ [][StartupNext]_vars

----------------------------------------------------------------------------
(* Claims about _deduplicate_papers, checked under SpecDedup *)

HasIdentifier(paper) == Identifiers(paper) # <<>>

\* the paper has no doi, arxiv_id or pmid (absent, None, empty or blank)
NoIds(paper) ==
    /\ Strip(GetOrEmpty(paper.doi)) = <<>>
    /\ Strip(GetOrEmpty(paper.arxiv_id)) = <<>>
    /\ Strip(GetOrEmpty(paper.pmid)) = <<>>

\* lower-casing, removing punctuation and collapsing whitespace, as the claims word it
NormalTitle(s) == CollapseWs(RemovePunct(Lower(s)))

IsNoTitle(s) == Lower(Strip(s)) = NoTitle

BothCalls == {"once", "doubled"} \subseteq dd_calls

\* C2 as stated: for every list P, _deduplicate_papers(P ++ P) equals
\* _deduplicate_papers(P).
C2_DoubledEqualsOnce == BothCalls => dd_out2 = dd_out

\* C2 amended: for every list P in which every paper has at least one identifier
\* token (a non-blank doi, arxiv_id or pmid, or a non-blank title other than
\* 'no title'), _deduplicate_papers(P ++ P) equals _deduplicate_papers(P).
C2_DoubledEqualsOnceIdentified ==
    (BothCalls /\ \A i \in DOMAIN dd_in : HasIdentifier(dd_in[i])) => dd_out2 = dd_out

\* three identified papers, one of them a duplicate, deduplicated alone and doubled
C2_Witness ==
    /\ BothCalls
    /\ Len(dd_in) = 3
    /\ \A i \in DOMAIN dd_in : HasIdentifier(dd_in[i])
    /\ Len(dd_out) = 2
    /\ dd_out2 = dd_out

\* C3 as stated: for all papers a, b whose DOIs are non-empty and equal ignoring
\* letter case, _deduplicate_papers([a, b]) is exactly [a].
C3_EqualDoiKeepsFirst ==
    ( /\ "once" \in dd_calls
      /\ Len(dd_in) = 2
      /\ dd_in[1].doi.k = "str" /\ dd_in[1].doi.s # <<>>
      /\ dd_in[2].doi.k = "str" /\ dd_in[2].doi.s # <<>>
      /\ Lower(dd_in[1].doi.s) = Lower(dd_in[2].doi.s) )
    => dd_out = <<dd_in[1]>>

\* C3 amended: for all papers a, b whose DOIs are non-empty after stripping the
\* surrounding whitespace and then equal ignoring letter case,
\* _deduplicate_papers([a, b]) is exactly [a], whatever their other fields are.
C3_EqualStrippedDoiKeepsFirst ==
    ( /\ "once" \in dd_calls
      /\ Len(dd_in) = 2
      /\ dd_in[1].doi.k = "str" /\ Strip(dd_in[1].doi.s) # <<>>
      /\ dd_in[2].doi.k = "str" /\ Strip(dd_in[2].doi.s) # <<>>
      /\ Lower(Strip(dd_in[1].doi.s)) = Lower(Strip(dd_in[2].doi.s)) )
    => dd_out = <<dd_in[1]>>

\* two papers whose DOIs differ only in letter case and padding, and which share
\* no other identifier, reduced to the first
C3_Witness ==
    /\ "once" \in dd_calls
    /\ Len(dd_in) = 2
    /\ dd_in[1].doi.k = "str" /\ dd_in[2].doi.k = "str"
    /\ Strip(dd_in[1].doi.s) # <<>>
    /\ dd_in[1].doi.s # dd_in[2].doi.s
    /\ Lower(Strip(dd_in[1].doi.s)) = Lower(Strip(dd_in[2].doi.s))
    /\ dd_in[1].arxiv_id = None /\ dd_in[2].pmid = Missing
    /\ NormalTitle(GetOrEmpty(dd_in[1].title)) # NormalTitle(GetOrEmpty(dd_in[2].title))
    /\ dd_out = <<dd_in[1]>>

\* C4 as stated: two papers with no doi, arxiv_id or pmid whose titles become
\* equal after lower-casing, removing punctuation and collapsing whitespace (and
\* are not 'no title') are reduced to the first; two papers whose only candidate
\* identifier is the title 'No title' are both kept.
C4_EqualTitleKeepsFirst ==
    ( /\ "once" \in dd_calls
      /\ Len(dd_in) = 2
      /\ NoIds(dd_in[1]) /\ NoIds(dd_in[2])
      /\ dd_in[1].title.k = "str" /\ dd_in[2].title.k = "str" )
    => /\ ( /\ ~IsNoTitle(dd_in[1].title.s) /\ ~IsNoTitle(dd_in[2].title.s)
            /\ NormalTitle(dd_in[1].title.s) = NormalTitle(dd_in[2].title.s) )
          => dd_out = <<dd_in[1]>>
       /\ (IsNoTitle(dd_in[1].title.s) /\ IsNoTitle(dd_in[2].title.s))
          => dd_out = dd_in

\* C4 amended: two papers with no doi, arxiv_id or pmid whose titles are not
\* blank (non-empty after stripping whitespace), are not 'no title', and become
\* equal after lower-casing, removing punctuation and collapsing whitespace are
\* reduced to the first; two papers whose only candidate identifier is the title
\* 'No title' are both kept.
C4_EqualNonBlankTitleKeepsFirst ==
    ( /\ "once" \in dd_calls
      /\ Len(dd_in) = 2
      /\ NoIds(dd_in[1]) /\ NoIds(dd_in[2])
      /\ dd_in[1].title.k = "str" /\ dd_in[2].title.k = "str" )
    => /\ ( /\ Strip(dd_in[1].title.s) # <<>> /\ Strip(dd_in[2].title.s) # <<>>
            /\ ~IsNoTitle(dd_in[1].title.s) /\ ~IsNoTitle(dd_in[2].title.s)
            /\ NormalTitle(dd_in[1].title.s) = NormalTitle(dd_in[2].title.s) )
          => dd_out = <<dd_in[1]>>
       /\ (IsNoTitle(dd_in[1].title.s) /\ IsNoTitle(dd_in[2].title.s))
          => dd_out = dd_in

\* two identifier-less papers with differently written, equally normalised titles,
\* reduced to the first
C4_Witness ==
    /\ "once" \in dd_calls
    /\ Len(dd_in) = 2
    /\ NoIds(dd_in[1]) /\ NoIds(dd_in[2])
    /\ dd_in[1].title.k = "str" /\ dd_in[2].title.k = "str"
    /\ Strip(dd_in[1].title.s) # <<>>
    /\ ~IsNoTitle(dd_in[1].title.s)
    /\ Lower(dd_in[1].title.s) # Lower(dd_in[2].title.s)
    /\ NormalTitle(dd_in[1].title.s) = NormalTitle(dd_in[2].title.s)
    /\ dd_out = <<dd_in[1]>>

\* C28: in the output of _deduplicate_papers any two kept papers at different
\* positions that each have an identifier token have disjoint token sets, and
\* deduplicating the output again returns it unchanged.
C28_KeptDisjointAndIdempotent ==
    /\ "once" \in dd_calls =>
          \A m, n \in DOMAIN dd_out :
              m # n => Range(Identifiers(dd_out[m])) \cap Range(Identifiers(dd_out[n])) = {}
    /\ "again" \in dd_calls => dd_again = dd_out

\* a list of three papers of which one was dropped, deduplicated twice: the
\* two kept papers both have tokens
C28_Witness ==
    /\ "again" \in dd_calls
    /\ Len(dd_in) = 3
    /\ Len(dd_again) = 2
    /\ \A n \in DOMAIN dd_again : HasIdentifier(dd_again[n])

----------------------------------------------------------------------------
(* Claims about search_papers, checked under SpecSearch *)

\* the concatenation of the lists handed back by the adapters that returned
RECURSIVE ReturnedPapers(_)
ReturnedPapers(log) ==
    IF log = <<>> THEN <<>>
    ELSE (IF Head(log).kind = "returned" THEN Head(log).papers ELSE <<>>)
         \o ReturnedPapers(Tail(log))

\* C1: for every max_results = N >= 0, every non-empty sources list and every
\* combination of lists returned by the adapters, the list search_papers returns
\* (UnifiedPaperFetcher and PaperFetcher, with or without category / date_range)
\* has length at most N; in the default relevance order the call always returns.
C1_ResultWithinMax ==
    sp_pc = "done" =>
        /\ sp_sort = "relevance" => sp_outcome = "returned"
        /\ sp_outcome = "returned" => Len(sp_result) <= sp_max

\* the adapters returned more distinct papers than max_results and the result is
\* cut to max_results
C1_Witness ==
    /\ sp_pc = "done" /\ sp_outcome = "returned"
    /\ sp_max >= 1
    /\ Len(deduplicate_papers(sp_all)) > sp_max
    /\ Len(sp_result) = sp_max

\* C5: a source whose adapter raises and a source name that is not recognised
\* contribute no papers and do not stop the remaining sources from being
\* queried: every source of the list is visited in order, every recognised one is
\* queried, and the result (in the default relevance order, which always returns,
\* and before PaperFetcher's date filter) is the deduplicated, truncated
\* concatenation of what the other sources returned.
C5_FailingSourceSkipped ==
    sp_pc = "done" =>
        /\ sp_sort = "relevance" => sp_outcome = "returned"
        /\ Len(sp_log) = Len(sp_sources)
        /\ \A n \in DOMAIN sp_log :
              /\ sp_log[n].source = sp_sources[n]
              /\ sp_log[n].kind = "unknown" <=> sp_sources[n] \notin KnownSources
              /\ sp_log[n].kind # "returned" => sp_log[n].papers = <<>>
        /\ ( /\ sp_outcome = "returned" /\ sp_sort = "relevance"
             /\ ~Filters(sp_cls, sp_cat, sp_sources, sp_range) )
           => sp_result = Truncate(deduplicate_papers(ReturnedPapers(sp_log)), sp_max)

\* a raising source first, then a source that returns papers, all of which appear
\* in the result
C5_Witness ==
    /\ sp_pc = "done" /\ sp_outcome = "returned" /\ sp_sort = "relevance"
    /\ Len(sp_log) = 2
    /\ sp_log[1].kind = "raised"
    /\ sp_log[2].kind = "returned" /\ Len(sp_log[2].papers) = 2
    /\ sp_result = sp_log[2].papers

\* C6: search_papers always ends by returning a list and never propagates an
\* exception, for every non-empty sources list, every per-source outcome and both
\* sort modes.
C6_NeverRaises == sp_pc = "done" => sp_outcome = "returned"

\* C26: PaperFetcher.search_papers called with date_range = d (d > 0) returns
\* only papers whose published_date is not older than d days before now, or is
\* empty or unparseable, for every combination of category and sources.
C26_DateRangeAlwaysApplied ==
    ( /\ sp_pc = "done" /\ sp_outcome = "returned"
      /\ sp_cls = "PaperFetcher"
      /\ sp_range.k = "int" /\ sp_range.n > 0 ) =>
        \A n \in DOMAIN sp_result : KeptByDate(sp_result[n], sp_range, sp_now)

----------------------------------------------------------------------------
(* Claims about analyze_temporal_trends, checked under SpecTrend *)

\* C7: analyze_temporal_trends never raises, and its result carries an 'error'
\* field if and only if the input list is empty: a non-empty list, also one with
\* papers whose title or abstract is null or whose year is missing, non-numeric
\* or out of range, gives a report without 'error' in which the bad records are
\* not counted.
C7_ErrorOnlyWhenEmpty ==
    tt_pc = "done" =>
        /\ tt_result.error <=> tt_papers = <<>>
        /\ ~tt_result.error =>
              tt_result.total_papers =
                  Cardinality({n \in DOMAIN tt_papers : ValidYear(tt_papers[n]).ok})

\* the keywords of one year of keyword_evolution, in first-seen order, that are
\* not keywords of the other year
FirstSeenWithout(year, other) ==
    LET table == tt_result.keyword_evolution
        seen == IF year \in DOMAIN table THEN [n \in DOMAIN table[year] |-> table[year][n].name]
                ELSE <<>>
        others == IF other \in DOMAIN table THEN {table[other][n].name : n \in DOMAIN table[other]}
                  ELSE {}
        NotOther(keyword) == keyword \notin others
    IN  SelectSeq(seen, NotOther)

\* C22: with at least 2 distinct valid years, the emerging topics list is the
\* first (at most 10) keywords of the latest year's keyword set minus the
\* preceding year's, in the order those keywords were first seen, and the
\* declining topics list is the same for preceding minus latest; the result is
\* therefore the same for the same input on every run.
C22_TopicsInFirstSeenOrder ==
    (tt_pc = "done" /\ ~tt_result.error /\ tt_result.total_years >= 2) =>
        LET years == DOMAIN tt_result.publication_trend
            latest == CHOOSE y \in years : \A z \in years : z <= y
            preceding == CHOOSE y \in years \ {latest} : \A z \in years \ {latest} : z <= y
            emerging == FirstSeenWithout(latest, preceding)
            declining == FirstSeenWithout(preceding, latest)
        IN  /\ tt_result.emerging_topics.topics = SubSeq(emerging, 1, Min(10, Len(emerging)))
            /\ tt_result.declining_topics.topics = SubSeq(declining, 1, Min(10, Len(declining)))

----------------------------------------------------------------------------
(* Claims about growth_analysis, checked under SpecGrowth *)

\* the number of papers of year y handed to analyze_temporal_trends
PapersOfYear(y) == Cardinality({n \in DOMAIN tt_papers : tt_papers[n].year = YearInt(y)})

\* the years with at least one paper
YearsPresent == {y \in GrowthYears \cup RoundingYears : PapersOfYear(y) > 0}

\* the corpus has exactly these numbers of papers for 2018, 2019, ... and none
\* for any later year
HasCounts(counts) ==
    \A y \in GrowthYears \cup RoundingYears :
        PapersOfYear(y) = IF y - 2017 <= Len(counts) THEN counts[y - 2017] ELSE 0

\* growth_rate_percent > 5: the float growth_rate_percent lies at the fraction
\* rate_num / rate_den, except that for a fraction of 5 or -5 it may lie just
\* above or below it (rate_rounding 1 or -1)
RateAbove5(g) ==
    g.rate_num > 5 * g.rate_den \/ (g.rate_num = 5 * g.rate_den /\ g.rate_rounding > 0)

\* growth_rate_percent < -5
RateBelowMinus5(g) ==
    \/ g.rate_num < (0 - 5) * g.rate_den
    \/ (g.rate_num = (0 - 5) * g.rate_den /\ g.rate_rounding < 0)

\* C11: trend_direction is 'growing' exactly when growth_rate_percent > 5,
\* 'declining' exactly when it is < -5 and 'stable' otherwise; yearly counts
\* 2, 2, 2, 10, 10 for 2018..2022 and 5, 5, 20 for 2020..2022 give 'growing'.
C11_DirectionFollowsRate ==
    (tt_pc = "done" /\ Cardinality(YearsPresent) >= 2) =>
        LET g == tt_result.growth_analysis
        IN  /\ g.rate_den > 0
            /\ g.trend_direction = "growing" <=> RateAbove5(g)
            /\ g.trend_direction = "declining" <=> RateBelowMinus5(g)
            /\ g.trend_direction = "stable" <=> (~RateAbove5(g) /\ ~RateBelowMinus5(g))
            /\ HasCounts(<<2, 2, 2, 10, 10>>) => g.trend_direction = "growing"
            /\ HasCounts(<<0, 0, 5, 5, 20>>) => g.trend_direction = "growing"

\* a growth_rate_percent of exactly 5.0 (10 papers, then 11: averages 10 and
\* 10.5) is 'stable'
C11_Witness ==
    /\ tt_pc = "done"
    /\ HasCounts(<<10, 11>>)
    /\ tt_result.growth_analysis.rate_num = 5 * tt_result.growth_analysis.rate_den
    /\ tt_result.growth_analysis.rate_rounding = 0
    /\ tt_result.growth_analysis.trend_direction = "stable"

\* averages 20/3 and 19/3 give a growth_rate_percent of -5.000000000000009,
\* which is 'declining'
RoundedBelowMinus5 ==
    /\ tt_pc = "done"
    /\ HasCounts(<<7, 7, 6, 6, 6, 7>>)
    /\ tt_result.growth_analysis.rate_num = (0 - 5) * tt_result.growth_analysis.rate_den
    /\ tt_result.growth_analysis.rate_rounding < 0
    /\ tt_result.growth_analysis.trend_direction = "declining"

\* averages 20/3 and 21/3 give a growth_rate_percent of 4.999999999999996,
\* which is 'stable'
RoundedBelow5 ==
    /\ tt_pc = "done"
    /\ HasCounts(<<6, 7, 7, 7, 7, 7>>)
    /\ tt_result.growth_analysis.rate_num = 5 * tt_result.growth_analysis.rate_den
    /\ tt_result.growth_analysis.rate_rounding < 0
    /\ tt_result.growth_analysis.trend_direction = "stable"

\* the years of the input that come before the latest min(3, n) years
BeforeWindow == {y \in YearsPresent : Cardinality({z \in YearsPresent : z > y}) >= 3}

\* the latest min(3, n) years of the input
Window == YearsPresent \ BeforeWindow

\* recent and earlier years, their averages and the rate fit together:
\* rate = (recent_avg - earlier_avg) / earlier_avg * 100, or 0 when the
\* earlier average is 0
RateFromAverages(g) ==
    /\ g.recent_sum = SumOver([y \in GrowthYears \cup RoundingYears |-> PapersOfYear(y)], g.recent_years)
    /\ g.earlier_sum = SumOver([y \in GrowthYears \cup RoundingYears |-> PapersOfYear(y)], g.earlier_years)
    /\ g.rate_den > 0
    /\ IF g.earlier_sum > 0
       THEN g.rate_num * (g.earlier_sum * Cardinality(g.recent_years))
            = 100 * ( g.recent_sum * Cardinality(g.earlier_years)
                    - g.earlier_sum * Cardinality(g.recent_years) ) * g.rate_den
       ELSE g.rate_num = 0

\* C12 as stated: with two or more years, 'recent' is the latest min(3, n)
\* years, 'earlier' is exactly the years before that window (disjoint from it),
\* and the rate is (recent_avg - earlier_avg) / earlier_avg * 100, or 0 when
\* there is no earlier year.
C12_EarlierDisjointFromRecent ==
    (tt_pc = "done" /\ Cardinality(YearsPresent) >= 2) =>
        LET g == tt_result.growth_analysis
        IN  /\ g.recent_years = Window
            /\ g.earlier_years = BeforeWindow
            /\ g.recent_years \cap g.earlier_years = {}
            /\ RateFromAverages(g)

\* C12 as amended: 'recent' is the latest min(3, n) years; 'earlier' is the
\* years before that window when there are more than 3 years, and all years
\* but the latest (overlapping the window) when there are 2 or 3; the rate is
\* (recent_avg - earlier_avg) / earlier_avg * 100 and the earlier average is
\* never 0.
C12_EarlierOverlapsUpToThreeYears ==
    (tt_pc = "done" /\ Cardinality(YearsPresent) >= 2) =>
        LET g == tt_result.growth_analysis
            latest == CHOOSE y \in YearsPresent : \A z \in YearsPresent : z <= y
        IN  /\ g.recent_years = Window
            /\ g.earlier_years = IF Cardinality(YearsPresent) > 3 THEN BeforeWindow
                                  ELSE YearsPresent \ {latest}
            /\ g.earlier_sum > 0
            /\ RateFromAverages(g)

\* five years with an earlier average of 2 and a recent average of 22/3, and
\* the rate (22/3 - 2) / 2 * 100 = 800/3
C12_Witness ==
    /\ tt_pc = "done"
    /\ HasCounts(<<2, 2, 2, 10, 10>>)
    /\ tt_result.growth_analysis.earlier_years = {2018, 2019}
    /\ tt_result.growth_analysis.recent_years = {2020, 2021, 2022}
    /\ 3 * tt_result.growth_analysis.rate_num = 800 * tt_result.growth_analysis.rate_den

----------------------------------------------------------------------------
(* Claims about detect_research_gaps, checked under SpecGaps *)

TableNames(table) == {table[n].name : n \in DOMAIN table}

DataTypeNames == TableNames(data_type_words) \cup {"tabular"}

EntryNames(entries) == {entries[n].category : n \in DOMAIN entries}

\* the number of papers of the corpus the category's test holds for
AreaCount(name) ==
    Cardinality({n \in DOMAIN gp_papers : name \in Range(MatchTable[gp_papers[n]].areas)})

MethodCount(name) ==
    Cardinality({n \in DOMAIN gp_papers : name \in Range(MatchTable[gp_papers[n]].methods)})

DataTypeCount(name) ==
    Cardinality({n \in DOMAIN gp_papers : name \in Range(MatchTable[gp_papers[n]].data_types)})

\* C8: detect_research_gaps never raises, and its result carries an 'error'
\* field if and only if the input list is empty; for every non-empty list, also
\* with null or missing titles and abstracts and with an LLM processor absent,
\* answering or failing, it returns the report with the three gap lists.
C8_GapErrorOnlyWhenEmpty ==
    gp_pc = "done" =>
        /\ gp_result.error <=> gp_papers = <<>>
        /\ gp_papers # <<>> =>
              /\ gp_result.total_papers_analyzed = Len(gp_papers)
              /\ gp_result.ai_analysis = "absent" <=> gp_groq = "none"

\* a corpus with a paper whose title and abstract are None, analysed with a
\* failing LLM processor
C8_Witness ==
    /\ gp_pc = "done"
    /\ \E n \in DOMAIN gp_papers : gp_papers[n].title = None /\ gp_papers[n].abstract = None
    /\ gp_groq = "raises"
    /\ ~gp_result.error
    /\ gp_result.ai_analysis = "AI gap analysis failed"
    /\ gp_result.research_area_gaps # <<>>

\* C9: for every non-empty corpus, every category of the three taxonomies whose
\* coverage is below its taxonomy's threshold appears in the corresponding gaps
\* list, also the categories that no paper matches (coverage 0%).
C9_EveryLowCoverageListed ==
    (gp_pc = "done" /\ gp_papers # <<>>) =>
        /\ \A name \in TableNames(method_keywords) :
              MethodCount(name) * 100 < MethodThreshold * Len(gp_papers)
              => name \in EntryNames(gp_result.methodology_gaps)
        /\ \A name \in TableNames(area_keywords) :
              AreaCount(name) * 100 < AreaThreshold * Len(gp_papers)
              => name \in EntryNames(gp_result.research_area_gaps)
        /\ \A name \in DataTypeNames :
              DataTypeCount(name) * 100 < DataTypeThreshold * Len(gp_papers)
              => name \in EntryNames(gp_result.data_type_gaps)

\* for each paper of the model, the data types it matches: none unless its
\* lower-cased title and abstract mention data; otherwise every type one of
\* whose words occurs in them, and tabular when no type's word does
DataTypesMatched ==
    [paper \in GapPool \cup {FillerPaper} |->
        LET content == GapContent(paper).s
            hits == Range(MatchedNames(data_type_words, 1, content))
        IN  IF ~AnyKeyword(content, DataWords) THEN {}
            ELSE IF hits = {} THEN {"tabular"} ELSE hits]

\* the number of papers of the corpus that match the data type
MatchingDataTypeCount(name) ==
    Cardinality({n \in DOMAIN gp_papers : name \in DataTypesMatched[gp_papers[n]]})

\* C10: every entry of methodology_gaps, research_area_gaps and data_type_gaps
\* has a paper count equal to the number of input papers matching that category
\* and a coverage strictly below the threshold of its taxonomy
\* (count * 100 < 5, 10, 15 * total); a category matched by every paper is not
\* listed.
C10_EntriesBelowThreshold ==
    (gp_pc = "done" /\ ~gp_result.error) =>
        /\ \A n \in DOMAIN gp_result.methodology_gaps :
              LET e == gp_result.methodology_gaps[n]
              IN  /\ e.papers_count = MethodCount(e.category)
                  /\ e.total_papers = Len(gp_papers)
                  /\ e.papers_count * 100 < MethodThreshold * e.total_papers
        /\ \A n \in DOMAIN gp_result.research_area_gaps :
              LET e == gp_result.research_area_gaps[n]
              IN  /\ e.papers_count = AreaCount(e.category)
                  /\ e.total_papers = Len(gp_papers)
                  /\ e.papers_count * 100 < AreaThreshold * e.total_papers
        /\ \A n \in DOMAIN gp_result.data_type_gaps :
              LET e == gp_result.data_type_gaps[n]
              IN  /\ e.papers_count = MatchingDataTypeCount(e.category)
                  /\ e.total_papers = Len(gp_papers)
                  /\ e.papers_count * 100 < DataTypeThreshold * e.total_papers
        /\ \A name \in TableNames(area_keywords) :
              AreaCount(name) = Len(gp_papers) => name \notin EntryNames(gp_result.research_area_gaps)

\* position of a category in the order its taxonomy defines it
PlaceIn(names, name) == CHOOSE n \in DOMAIN names : names[n] = name

NamesOf(table) == [n \in DOMAIN table |-> table[n].name]

InTaxonomyOrder(entries, names) ==
    \A m, n \in DOMAIN entries :
        m < n => PlaceIn(names, entries[m].category) < PlaceIn(names, entries[n].category)

\* C24: for every corpus, the entries of methodology_gaps, research_area_gaps
\* and data_type_gaps appear in the order in which their categories are defined
\* in the taxonomy, whatever the order of the papers in the input.
C24_GapsInTaxonomyOrder ==
    (gp_pc = "done" /\ ~gp_result.error) =>
        /\ InTaxonomyOrder(gp_result.methodology_gaps, NamesOf(method_keywords))
        /\ InTaxonomyOrder(gp_result.research_area_gaps, NamesOf(area_keywords))
        /\ InTaxonomyOrder(gp_result.data_type_gaps, NamesOf(data_type_words) \o <<"tabular">>)

\* for each paper of the model, the data types one of whose words occurs in its
\* lower-cased title and abstract
MentionedTypes ==
    [paper \in GapPool \cup {FillerPaper} |->
        {data_type_words[n].name : n \in {m \in DOMAIN data_type_words :
            AnyKeyword(GapContent(paper).s, data_type_words[m].keywords)}}]

\* C25: in each of the three taxonomies a paper whose title and abstract contain
\* keywords of several categories is counted once in each of them, so the count
\* of every listed category equals the number of papers that contain at least
\* one of its keywords.
C25_CountedInEveryMatchingCategory ==
    (gp_pc = "done" /\ ~gp_result.error) =>
        /\ \A n \in DOMAIN gp_result.methodology_gaps :
              gp_result.methodology_gaps[n].papers_count
                = Cardinality({m \in DOMAIN gp_papers :
                      gp_result.methodology_gaps[n].category
                        \in Range(MatchedNames(method_keywords, 1, GapContent(gp_papers[m]).s))})
        /\ \A n \in DOMAIN gp_result.research_area_gaps :
              gp_result.research_area_gaps[n].papers_count
                = Cardinality({m \in DOMAIN gp_papers :
                      gp_result.research_area_gaps[n].category
                        \in Range(MatchedNames(area_keywords, 1, GapContent(gp_papers[m]).s))})
        /\ \A n \in DOMAIN gp_result.data_type_gaps :
              gp_result.data_type_gaps[n].category # "tabular" =>
                  gp_result.data_type_gaps[n].papers_count
                    = Cardinality({m \in DOMAIN gp_papers :
                          gp_result.data_type_gaps[n].category \in MentionedTypes[gp_papers[m]]})

----------------------------------------------------------------------------
(* Claims about _rate_limit *)

\* the call of rl_calls before position j for the same source: 0 if none
PreviousCall(j) ==
    LET before == {i \in 1..(j - 1) : rl_calls[i].source = rl_calls[j].source}
    IN  IF before = {} THEN 0 ELSE CHOOSE i \in before : \A k \in before : k <= i

\* C13: in sequential use two successive returns of _rate_limit(s) are at least
\* min_request_interval[s] apart; a call for s waits only on the last call to
\* s (it sleeps exactly what is missing from the interval since that call
\* returned, and not at all when there is no such call or the interval has
\* passed, whatever was called for other sources); and the last-call entry of
\* a source is changed only by the calls for that source.
C13_SequentialCallsSpaced ==
    /\ \A j \in DOMAIN rl_calls :
          LET c == rl_calls[j]
              i == PreviousCall(j)
              interval == min_request_interval[c.source]
          IN  IF i = 0 THEN c.slept = 0
              ELSE /\ c.returned - rl_calls[i].returned >= interval
                   /\ c.slept = IF c.now - rl_calls[i].returned < interval
                                 THEN interval - (c.now - rl_calls[i].returned)
                                 ELSE 0
    /\ \A s \in DOMAIN min_request_interval :
          LET of_s == {i \in DOMAIN rl_calls : rl_calls[i].source = s}
          IN  rl_last[s] = IF of_s = {} THEN 0
                           ELSE rl_calls[CHOOSE i \in of_s : \A k \in of_s : k <= i].returned

\* arxiv, then crossref, then arxiv again within 3 seconds: the third call
\* sleeps and returns exactly 3 seconds after the first
C13_Witness ==
    /\ Len(rl_calls) = 3
    /\ rl_calls[1].source = "arxiv" /\ rl_calls[2].source = "crossref" /\ rl_calls[3].source = "arxiv"
    /\ rl_calls[2].slept = 0
    /\ rl_calls[3].slept > 0
    /\ rl_calls[3].returned = rl_calls[1].returned + min_request_interval.arxiv

\* C14: when two or more threads call _rate_limit(s) in any interleaving, no
\* two of the calls return within less than min_request_interval[s] of each
\* other.
C14_ConcurrentCallsSpaced ==
    \A i, j \in DOMAIN rl_calls :
        (i < j /\ rl_calls[i].source = rl_calls[j].source)
            => rl_calls[j].returned - rl_calls[i].returned >= min_request_interval[rl_calls[i].source]

----------------------------------------------------------------------------
(* More claims about search_papers, checked under SpecSearch *)

\* C15: an adapter called with max_results = m returns at most m papers, even
\* when the upstream response holds more than m items.
C15_AdapterWithinMax ==
    \A n \in DOMAIN sp_log :
        sp_log[n].kind = "returned" => Len(sp_log[n].papers) <= sp_log[n].share

\* the sum of the shares handed to the adapters that were invoked
RECURSIVE SharesHandedOut(_)
SharesHandedOut(log) ==
    IF log = <<>> THEN 0
    ELSE (IF Head(log).kind = "unknown" THEN 0 ELSE Head(log).share) + SharesHandedOut(Tail(log))

\* C20: in one search_papers call with max_results = N over the sources list S,
\* the adapter of every recognised entry of S is invoked exactly once, in the
\* order of S, each with the share max(1, N div |S|); when N >= |S| the shares
\* handed to the adapters sum to at most N.
C20_SharesWithinMax ==
    /\ Len(sp_log) <= Len(sp_sources)
    /\ sp_pc = "done" => Len(sp_log) = Len(sp_sources)
    /\ \A n \in DOMAIN sp_log :
          /\ sp_log[n].source = sp_sources[n]
          /\ sp_log[n].kind \in {"returned", "raised"} <=> sp_sources[n] \in KnownSources
          /\ sp_log[n].kind \in {"returned", "raised"} =>
                /\ sp_log[n].share >= 1
                /\ sp_log[n].share >= sp_max \div Len(sp_sources)
                /\ sp_log[n].share = 1 \/ sp_log[n].share = sp_max \div Len(sp_sources)
    /\ sp_max >= Len(sp_sources) => SharesHandedOut(sp_log) <= sp_max

\* three results asked of two recognised sources: each adapter is asked for one
C20_Witness ==
    /\ sp_pc = "done"
    /\ sp_max = 3 /\ Len(sp_sources) = 2
    /\ \A n \in DOMAIN sp_log : sp_log[n].kind = "returned" /\ sp_log[n].share = 1
    /\ SharesHandedOut(sp_log) = 2

----------------------------------------------------------------------------
(* More claims about _deduplicate_papers, checked under SpecDedup *)

\* the positions among the first n of papers that are kept: a paper is kept
\* if and only if it shares no identifier token with a paper kept before it
RECURSIVE KeptUpTo(_, _)
KeptUpTo(papers, n) ==
    IF n = 0 THEN {}
    ELSE LET kept == KeptUpTo(papers, n - 1)
         IN  IF \A j \in kept : Range(Identifiers(papers[j])) \cap Range(Identifiers(papers[n])) = {}
             THEN kept \cup {n}
             ELSE kept

\* the papers at the positions of K, in the order of the list
RECURSIVE PapersAt(_, _)
PapersAt(papers, K) ==
    IF K = {} THEN <<>>
    ELSE LET last == CHOOSE i \in K : \A j \in K : j <= i
         IN  Append(PapersAt(papers, K \ {last}), papers[last])

\* C19: _deduplicate_papers returns an order-preserving subsequence of its
\* input in which a paper is kept if and only if none of its identifier tokens
\* belongs to a paper kept earlier in the list; the tokens of a dropped paper do
\* not count, so the first occurrence always wins.
C19_KeptUnlessTokenOfKept ==
    /\ "once" \in dd_calls => dd_out = PapersAt(dd_in, KeptUpTo(dd_in, Len(dd_in)))
    /\ "doubled" \in dd_calls =>
          dd_out2 = PapersAt(dd_in \o dd_in, KeptUpTo(dd_in \o dd_in, 2 * Len(dd_in)))

\* three papers: the second shares its DOI with the first and is dropped, the
\* third shares its title with the dropped second only and is kept
C19_Witness ==
    /\ "once" \in dd_calls
    /\ Len(dd_in) = 3
    /\ Range(Identifiers(dd_in[1])) \cap Range(Identifiers(dd_in[2])) # {}
    /\ Range(Identifiers(dd_in[2])) \cap Range(Identifiers(dd_in[3])) # {}
    /\ Range(Identifiers(dd_in[1])) \cap Range(Identifiers(dd_in[3])) = {}
    /\ dd_out = <<dd_in[1], dd_in[3]>>

----------------------------------------------------------------------------
(* Claims about _search_semantic_scholar, checked under SpecScholar *)

\* at most 3 requests, none after a usable response; a wait of 5 seconds after
\* the first failed attempt, of 10 after the second, none after the third nor
\* after a usable response; and [] returned when all attempts failed
RetriesBounded ==
    /\ Len(s2_log) <= 3
    /\ \A n \in DOMAIN s2_log :
          /\ n < Len(s2_log) => ~Usable(s2_log[n].response)
          /\ s2_log[n].wait = IF Usable(s2_log[n].response) \/ n = 3 THEN 0 ELSE 5 * n
    /\ s2_pc = "done" =>
          /\ s2_log # <<>>
          /\ Usable(s2_log[Len(s2_log)].response) \/ Len(s2_log) = 3
          /\ ~Usable(s2_log[Len(s2_log)].response) => s2_result = <<>>
          /\ s2_log[Len(s2_log)].response.kind = "data" =>
                Len(s2_result) = s2_log[Len(s2_log)].response.items

\* C16: one call of _search_semantic_scholar always terminates and issues at
\* most 3 requests: it stops at the first usable response, waits 5 seconds
\* after the first failed attempt and 10 after the second, not after the last,
\* and returns an empty list when all attempts fail.
C16_BoundedRetry == []RetriesBounded /\ <>(s2_pc = "done")

\* three failed attempts, with waits of 5 and 10 seconds, and [] returned
C16_Witness ==
    /\ s2_pc = "done"
    /\ Len(s2_log) = 3
    /\ s2_log[1].wait = 5 /\ s2_log[2].wait = 10 /\ s2_log[3].wait = 0
    /\ ~Usable(s2_log[3].response)
    /\ s2_result = <<>>

----------------------------------------------------------------------------
(* Claims about Crossref publication dates, checked under SpecCrossref *)

\* C18: a paper built (by search or by DOI lookup) from a Crossref item whose
\* date-parts array holds 1 to 3 integers has year equal to the first integer
\* and published_date equal to YYYY-MM-DD, a missing month or day being 01;
\* date-parts [[2021, 6]] gives '2021-06-01' and year 2021.
C18_DatePartsFilled ==
    (cr_pc = "done" /\ cr_item.print /\ Len(cr_item.parts) \in 1..3) =>
        LET parts == cr_item.parts
            month == IF Len(parts) >= 2 THEN parts[2] ELSE 1
            day == IF Len(parts) >= 3 THEN parts[3] ELSE 1
        IN  /\ cr_paper.year = [k |-> "int", n |-> parts[1]]
            /\ cr_paper.published_date
                  = Format(parts[1], 4) \o <<"-">> \o Format(month, 2) \o <<"-">> \o Format(day, 2)
            /\ parts = <<2021, 6>> =>
                  cr_paper.published_date = <<"2", "0", "2", "1", "-", "0", "6", "-", "0", "1">>

----------------------------------------------------------------------------
(* Claims about generate_trend_report, checked under SpecReport *)

ReportDone == rp_pc = "done" /\ rp_papers # <<>>

\* the analyses that raise on the list: each one judged on its own code
FailingAnalyses(papers) ==
    LET broken == \E i \in DOMAIN papers : ~papers[i].dict
        yearKinds == {papers[i].year.k : i \in {j \in DOMAIN papers : ~FalsyYear(papers[j].year)}}
    IN  (IF broken THEN {"temporal_trends", "research_gaps", "keyword_analysis", "emerging_topics"}
         ELSE {})
        \cup (IF \E i \in DOMAIN papers :
                    /\ papers[i].dict
                    /\ ValidYear(papers[i]).ok
                    /\ "none" \in {papers[i].title.k, papers[i].abstract.k}
                    /\ \A j \in 1..i : papers[j].dict
              THEN {"temporal_trends"} ELSE {})
        \cup (IF ~broken /\ {"int", "str"} \subseteq yearKinds THEN {"keyword_analysis"} ELSE {})

\* C17: for every non-empty list, the report has no top-level 'error' key and
\* has temporal_trends, research_gaps, keyword_analysis, emerging_topics and
\* executive_summary; a sub-section carries an 'error' exactly when its own
\* analysis failed, and the other sub-sections are computed as they would be
\* without that failure.
C17_FailureStaysInItsSection ==
    ReportDone =>
        /\ "error" \notin rp_report.keys
        /\ {"temporal_trends", "research_gaps", "keyword_analysis", "emerging_topics",
            "executive_summary"} \subseteq rp_report.keys
        /\ \A section \in {"temporal_trends", "research_gaps", "keyword_analysis", "emerging_topics"} :
              rp_report[section].error <=> section \in FailingAnalyses(rp_papers)
        /\ ~rp_report.emerging_topics.error =>
              rp_report.emerging_topics.recent_papers_count
                + rp_report.emerging_topics.older_papers_count <= Len(rp_papers)
        /\ ~rp_report.research_gaps.error =>
              rp_report.research_gaps.total_papers_analyzed = Len(rp_papers)

\* one analysis failed and the three others were computed
C17_Witness ==
    /\ ReportDone
    /\ rp_report.temporal_trends.error
    /\ ~rp_report.research_gaps.error
    /\ ~rp_report.keyword_analysis.error
    /\ rp_report.keyword_analysis.keyword_evolution # <<>>
    /\ ~rp_report.emerging_topics.error
    /\ rp_report.emerging_topics.emerging_topics # {}

----------------------------------------------------------------------------
(* Claims about _search_pubmed, checked under SpecPubmed *)

CallsMade == [n \in DOMAIN pm_log |-> pm_log[n].call]

\* C21: the requests of a _search_pubmed call follow the two-step order: one
\* esearch, then at most one efetch, issued only after the esearch succeeded
\* with a non-empty PMID list; each request is preceded by its own
\* _rate_limit('pubmed'); when esearch fails or returns no PMIDs no efetch is
\* issued and the result is empty.
C21_EsearchThenEfetch ==
    /\ \E k \in 0..4 : CallsMade = SubSeq(<<"_rate_limit", "esearch", "_rate_limit", "efetch">>, 1, k)
    /\ \A n \in DOMAIN pm_log : pm_log[n].call = "_rate_limit" => pm_log[n].source = "pubmed"
    /\ Len(pm_log) >= 3 =>
          /\ pm_log[2].response.kind = "idlist"
          /\ pm_log[2].response.idlist # <<>>
          /\ pm_ids = pm_log[2].response.idlist
    /\ Len(pm_log) = 4 => pm_log[4].id = pm_ids
    /\ pm_pc = "done" =>
          /\ Len(pm_log) \in {2, 4}
          /\ Len(pm_log) = 2 <=> (pm_log[2].response.kind # "idlist" \/ pm_log[2].response.idlist = <<>>)
          /\ Len(pm_log) = 2 => pm_result = <<>>

\* a call that made both requests and returned a paper, and before it the
\* esearch that gave PMIDs
C21_Witness ==
    /\ pm_pc = "done"
    /\ Len(pm_log) = 4
    /\ pm_ids # <<>>
    /\ pm_result # <<>>

----------------------------------------------------------------------------
(* Claims about _extract_keywords, checked under SpecKeywords *)

\* the alphabetic runs of the lower-cased content that are longer than 3 and no
\* stop words, with repetitions
TermsOf(content) == SelectSeq(FindWords(Lower(content)), IsKeyword)

Occurrences(term, terms) == Cardinality({n \in DOMAIN terms : terms[n] = term})

\* C23: _extract_keywords returns at most 20 distinct terms, each an alphabetic
\* run of length > 3 that is not a stop word, and they are the most frequent
\* such terms of the content: no term left out occurs more often in the content
\* than a term that is returned.
C23_MostFrequentTerms ==
    kw_pc = "done" =>
        LET terms == TermsOf(kw_content)
        IN  /\ Len(kw_keywords) <= 20
            /\ \A m, n \in DOMAIN kw_keywords : m # n => kw_keywords[m] # kw_keywords[n]
            /\ \A n \in DOMAIN kw_keywords :
                  /\ kw_keywords[n] \in Range(terms)
                  /\ \A k \in DOMAIN kw_keywords[n] : IsAlpha(kw_keywords[n][k])
                  /\ Len(kw_keywords[n]) > 3
                  /\ kw_keywords[n] \notin stop_words
            /\ \A left \in Range(terms) \ Range(kw_keywords) :
                  \A n \in DOMAIN kw_keywords :
                      Occurrences(left, terms) <= Occurrences(kw_keywords[n], terms)

----------------------------------------------------------------------------
(* Claims about calls sharing a monitor, checked under SpecMonitor *)

\* C27: analyze_temporal_trends and detect_research_gaps leave every field of
\* the monitor (trend_data, keyword_trends, temporal_data, gap_analysis_cache)
\* and the papers they were handed unchanged, so a call interleaved with
\* another returns what the same call returns when it runs on its own.
C27_CallsShareNothing ==
    /\ mo_fields = MonitorFields
    /\ mo_papers = mo_given
    /\ \A t \in DOMAIN mo_call :
          mo_call[t].pc = "done" =>
              mo_call[t].result = MonitorResult(mo_call[t].method, mo_given, mo_groq)

\* one call has returned counts while the other, of the other method, is in
\* the middle of its loop over the same two papers
C27_Witness ==
    /\ Len(mo_papers) = 2
    /\ \E t, u \in DOMAIN mo_call :
          /\ mo_call[t].method = "analyze_temporal_trends"
          /\ mo_call[t].pc = "done"
          /\ ~mo_call[t].result.trends.error
          /\ mo_call[t].result.trends.total_papers = 2
          /\ mo_call[u].method = "detect_research_gaps"
          /\ mo_call[u].pc = "loop"
          /\ mo_call[u].i = 2

----------------------------------------------------------------------------
(* Claims about the AuthManager, checked under SpecAuth *)

\* whether verify_token would accept the token now
Accepted(token) == verify_token(au_sessions, token, datetime_utcnow, datetime_now).accepted

\* C29: after any sequence of authenticate_user, logout_user, verify_token and
\* cleanup_expired_sessions calls, verify_token accepts a token only if it is
\* the token of the latest successful authenticate_user of its user, the user
\* has not been logged out since, and the session was created less than 8
\* hours before; so each user has at most one accepted token at any time.
C29_OnlyLatestLiveToken ==
    /\ (au_verdict.called /\ au_verdict.accepted) =>
          /\ au_verdict.latest.login
          /\ au_verdict.token = au_verdict.latest.token
          /\ ~au_verdict.latest.out
          /\ au_verdict.at - au_verdict.latest.at < EightHours
    /\ \A user_id \in UserIds :
          Cardinality({token \in au_issued : token.user_id = user_id /\ Accepted(token)}) <= 1

\* a token was accepted although an earlier token of the same user has not yet
\* reached its exp, and another token of that user had just been refused
C29_Witness ==
    /\ au_verdict.called
    /\ au_verdict.accepted
    /\ au_verdict.at > au_verdict.latest.at
    /\ \E old \in au_issued :
          /\ old.user_id = au_verdict.token.user_id
          /\ old # au_verdict.token
          /\ Decode(old, datetime_utcnow)
          /\ ~Accepted(old)

\* daylight saving time began after a login: verify_token refuses the user's
\* latest token, not logged out and not yet at its exp, because the session is
\* more than 8 hours old on the local wall clock, and removes the session
RefusedOnLocalClock ==
    /\ au_verdict.called
    /\ ~au_verdict.accepted
    /\ au_verdict.latest.login
    /\ au_verdict.token = au_verdict.latest.token
    /\ ~au_verdict.latest.out
    /\ au_verdict.at = au_clock
    /\ Decode(au_verdict.token, datetime_utcnow)
    /\ au_verdict.token.user_id \notin DOMAIN au_sessions

----------------------------------------------------------------------------
(* Claims about initialize_research_mate, checked under SpecStartup *)

\* C30: under every interleaving of the lifespan task, startup_event and
\* /api/trigger-init requests, at most one run of initialize_research_mate is
\* past its in-progress guard at a time; research_mate_initialized is true only
\* when research_mate and citation_analyzer are both set; and a failed run
\* leaves research_mate, citation_analyzer, research_mate_initialized reset
\* (None, None, false) and initialization_in_progress false.
C30_OneRunAtATime ==
    /\ Cardinality({r \in DOMAIN init_runs : PastGuard(init_runs[r])}) <= 1
    /\ research_mate_initialized => (research_mate # 0 /\ citation_analyzer # 0)
    /\ \A r \in DOMAIN init_runs :
          init_runs[r].pc = "failed" =>
              init_runs[r].left = [research_mate |-> 0, citation_analyzer |-> 0,
                                   research_mate_initialized |-> FALSE,
                                   initialization_in_progress |-> FALSE]

\* after a failed run and a run stopped by the guard, a later run has
\* initialized both components
C30_Witness ==
    /\ research_mate_initialized
    /\ \E r, q, p \in DOMAIN init_runs :
          /\ init_runs[r].pc = "failed"
          /\ init_runs[q].pc = "returned"
          /\ init_runs[p].pc = "initialized"
          /\ r < p

====
